---- MODULE Spec2Model ----
(***************************************************************************)
(* Model of AddressResolver (src/src/utils/address_resolver.py): the       *)
(* chain of responsibility resolve_address (literal address, ENS, Space    *)
(* ID) and the reverse lookup get_domain_for_address, against the two      *)
(* external naming backends.  Python strings are TLA+ strings; the         *)
(* backends are state: what each of their four lookups answers for a key.  *)
(***************************************************************************)
EXTENDS Integers, Sequences, FiniteSets, TLC

\* At most this many lookups of the two backends answer something else than
\* their plain "not found".
MaxRecords == 2

\* Python's None, and "the call raises", as the answer of an ENS lookup.
None == "<None>"
Raise == "<raise>"

(***************************************************************************)
(* Strings.                                                                *)
(***************************************************************************)
StartsWith(s, prefix) ==
    Len(s) >= Len(prefix) /\ SubSeq(s, 1, Len(prefix)) = prefix

EndsWith(s, suffix) ==
    Len(s) >= Len(suffix) /\ SubSeq(s, Len(s) - Len(suffix) + 1, Len(s)) = suffix

UpperChars == "ABCDEFGHIJKLMNOPQRSTUVWXYZ"
LowerChars == "abcdefghijklmnopqrstuvwxyz"

\* The characters of a string.
Chars(s) == {SubSeq(s, i, i) : i \in 1..Len(s)}

\* str.lower() of the upper-case letters.
LowerOf ==
    [c \in Chars(UpperChars) |->
        LET i == CHOOSE j \in 1..Len(UpperChars) : SubSeq(UpperChars, j, j) = c
        IN  SubSeq(LowerChars, i, i)]

\* str.lower() of one character.
LowerChar(c) == IF c \in DOMAIN LowerOf THEN LowerOf[c] ELSE c

RECURSIVE LowerFrom(_, _)
\* str.lower() of s from its i-th character on.
LowerFrom(s, i) ==
    IF i > Len(s) THEN ""
    ELSE LowerChar(SubSeq(s, i, i)) \o LowerFrom(s, i + 1)

\* str.lower()
Lower(s) == LowerFrom(s, 1)

\* Python truthiness of an Optional[str]: None and "" are falsy.
Truthy(v) == v # None /\ v # ""

(***************************************************************************)
(* The format validator (web3 / eth_utils), as the resolver uses it.       *)
(***************************************************************************)
AddressLength == 42

HexChars == Chars("0123456789abcdefABCDEF")

IsHexChar(c) == c \in HexChars

\* eth_utils.remove_0x_prefix
Remove0x(s) ==
    IF StartsWith(s, "0x") \/ StartsWith(s, "0X") THEN SubSeq(s, 3, Len(s)) ELSE s

\* eth_utils.is_hex_address: a hex string of 40 digits, with or without 0x.
IsHexAddress(v) ==
    /\ v # None
    /\ Len(Remove0x(v)) = AddressLength - Len("0x")
    /\ \A c \in Chars(Remove0x(v)) : IsHexChar(c)

\* The addresses of the model, in EIP-55 checksum form (keccak-256 of the
\* lower-case hex decides the case of each letter).
AddrA == "0x5aAeb6053F3E94C9b9A09f33669435E7Ef1BeAed"
AddrB == "0x1111111111111111111111111111111111111111"
ChecksumForms == {AddrA, AddrB}

\* eth_utils.to_normalized_address: lower case, 0x prefixed.
Normalize(v) == "0x" \o Lower(Remove0x(v))

\* The normalized address each checksum form stands for.
NormalizedForms == [c \in ChecksumForms |-> Lower(c)]

\* web3.to_checksum_address of a hex address.
Checksum(v) == CHOOSE c \in ChecksumForms : NormalizedForms[c] = Normalize(v)

LowerCharSet == Chars(LowerChars)

IsUpperChar(c) == c \in DOMAIN LowerOf
IsLowerChar(c) == c \in LowerCharSet

\* eth_utils._is_checksum_formatted: the hex body is not islower(), not
\* isupper() and not isnumeric(), that is, it has letters of both cases.
IsChecksumFormatted(v) ==
    LET body == Remove0x(v)
    IN  /\ \E i \in 1..Len(body) : IsUpperChar(SubSeq(body, i, i))
        /\ \E i \in 1..Len(body) : IsLowerChar(SubSeq(body, i, i))

\* web3.is_address
IsAddress(v) ==
    /\ IsHexAddress(v)
    /\ IsChecksumFormatted(v) => v = Checksum(v)

(***************************************************************************)
(* The strings of the model.                                               *)
(***************************************************************************)
AddrALower == "0x5aaeb6053f3e94c9b9a09f33669435e7ef1beaed"
\* AddrA with the case of its first letter flipped: hex, but a bad checksum.
AddrABad == "0x5AAeb6053F3E94C9b9A09f33669435E7Ef1BeAed"
\* The shape of an address (0x, 42 characters) and the primary suffix.
AddrLikeEth == "0xaaaaaaaaaaaaaaaaaaaaaaaaaaaaaaaaaaaa.eth"
\* What a backend may answer in place of an address.
Malformed == "0x1234"

\* The names ENS may hold forward records for.
EnsNames == {"alice.eth", AddrLikeEth}
\* The names Space ID may hold forward records for: a literal address can
\* be registered as a name too.
SpaceIdNames == {"alice.eth", "alice.ip", AddrALower}
\* What a caller may pass to resolve_address.
Identifiers ==
    {AddrA, AddrALower, AddrB, AddrABad, AddrLikeEth,
     "alice.eth", "ALICE.ETH", "alice.ip", "not-a-real-domain"}
\* The canonical addresses the backends may hold reverse records for.
Addresses == {AddrA}
\* What a caller may pass to get_domain_for_address.
ReverseArguments == {AddrA, AddrALower, AddrABad, Malformed}

(***************************************************************************)
(* The two naming backends.  ENS (self.ens) answers a lookup with a value, *)
(* with None, or raises; Space ID (requests.get on space_id_api_url)       *)
(* answers with an HTTP response, or requests.get raises.                  *)
(***************************************************************************)
EmptyDict == [k \in {} |-> None]

Response(status, data) ==
    [raises |-> FALSE, status |-> status, parses |-> TRUE, data |-> data]
\* requests.get raises: connection error, timeout.
NetworkError ==
    [raises |-> TRUE, status |-> 0, parses |-> FALSE, data |-> EmptyDict]
\* A body that is not JSON: response.json() raises.
NotJson(status) ==
    [raises |-> FALSE, status |-> status, parses |-> FALSE, data |-> EmptyDict]

\* The plain "not found" of each lookup.
EnsNotFound == None
SpaceIdNotFound == Response(200, [code |-> 1])

\* What ens.address(name) may do besides answering None.
EnsAddressAnswers == {AddrA, AddrB, Raise}
\* What ens.name(address) may do besides answering None.
EnsNameAnswers == {"alice.eth", Raise}
\* What GET /getAddress may answer besides "not found".
GetAddressAnswers ==
    { NetworkError,
      NotJson(200),
      Response(500, [code |-> 0, address |-> AddrALower]),
      Response(200, [code |-> 1, address |-> AddrALower]),
      Response(200, [address |-> AddrALower]),
      Response(200, [code |-> 0]),
      Response(200, [code |-> 0, address |-> ""]),
      Response(200, [code |-> 0, address |-> AddrALower]),
      Response(200, [code |-> 0, address |-> Malformed]) }
\* What GET /getName may answer besides "not found".
GetNameAnswers ==
    { NetworkError,
      NotJson(200),
      Response(500, [code |-> 0, name |-> "alice.ip"]),
      Response(200, [code |-> 1, name |-> "alice.ip"]),
      Response(200, [code |-> 0]),
      Response(200, [code |-> 0, name |-> ""]),
      Response(200, [code |-> 0, name |-> "alice.ip"]) }

\* chain_id: int = 1514
DefaultChainId == 1514

VARIABLES
    ens_address,        \* ENS forward records: what ens.address(name) does
    ens_name,           \* ENS reverse records: what ens.name(address) does
    get_address,        \* Space ID: the response to getAddress?domain=
    get_name,           \* Space ID: the response to getName?...&address=
    pc,                 \* where the one call in progress stands
    method,             \* the method called: resolve_address or get_domain_for_address
    argument,           \* its argument
    address,            \* get_domain_for_address: the checksummed address
    name,               \* _get_ens_name: the name ens.name returned
    ens_address_local,  \* resolve_address: ens_address
    space_id_address,   \* resolve_address: space_id_address
    requests,           \* the backend requests this call has issued, in order
    result,             \* how the call ended
    previous,           \* how the call before ended, when this one repeats it
    self,               \* the resolver's fields, as __init__ set them
    calls,              \* concurrent callers: the frame of each thread's call
    ipfs_enabled,       \* story_service.ipfs_enabled, once the servers are up
    tool_pc,            \* where the one tool call in progress stands
    tool,               \* the tool endpoint called
    arguments,          \* the arguments it was called with
    service_calls,      \* the service methods this tool call has called
    service_answer,     \* how the service call ended
    output,             \* what the tool handed to the MCP framework
    story,              \* the StoryService object, as __init__ left it
    frames,             \* the service call of each thread: its locals and what it did
    chain               \* the account on the chain: transaction count, pool, signed log

registries == <<ens_address, ens_name, get_address, get_name>>
\* The one call the callers make in sequence, and the resolver itself.
sequential == <<pc, method, argument, address, name, ens_address_local,
                space_id_address, requests, result, previous, self>>
locals == <<address, name, ens_address_local, space_id_address>>
vars == <<ens_address, ens_name, get_address, get_name, pc, method, argument,
          address, name, ens_address_local, space_id_address, requests, result,
          previous, self, calls, ipfs_enabled, tool_pc, tool,
          arguments, service_calls, service_answer, output, story, frames,
          chain>>
\* The tool endpoints of the three servers.
tools == <<ipfs_enabled, tool_pc, tool, arguments, service_calls,
           service_answer, output>>

\* The service object, its calls in progress and the chain they act on.
services == <<story, frames, chain>>

\* The threads that call the one resolver concurrently.
Threads == {"t1", "t2"}

\* A request to a backend: the lookup and its argument.
Request(lookup, arg) == [lookup |-> lookup, arg |-> arg]

\* How a call ends.
NoResult == [kind |-> "none"]
Returns(value) == [kind |-> "return", value |-> value]
Raises(exc, msg) == [kind |-> "raise", exc |-> exc, msg |-> msg]

\* The frame of a thread that is in no call: the method, what the caller
\* passed, and the locals address_or_domain / address and name.
IdleFrame ==
    [pc |-> "idle", method |-> None, asked |-> None, argument |-> None,
     address |-> None, name |-> None, result |-> NoResult]

\* The two service modules of the repository.
SdkService == "src/story-sdk-mcp/services/story_service.py"
LegacyService == "src/src/services/story_service.py"

\* The StoryService object before __init__ has run, or after it raised.
NotConstructed ==
    [constructed |-> FALSE, module |-> None, chain_id |-> 0, network |-> None,
     pinata_jwt |-> None, error |-> NoResult]

\* An amount of wei, digits * 10^exponent.
Wei(digits, exponent) == [digits |-> digits, exponent |-> exponent]

\* The frame of a thread that is in no service call: the method and its
\* arguments, the locals, and what the call has done so far, in order.
IdleCall ==
    [pc |-> "idle", method |-> None, to |-> None, owner |-> None, amount |-> 0,
     pending |-> <<>>, resolved |-> <<>>, to_resolved |-> None,
     owner_resolved |-> None, value_in_wei |-> Wei(0, 0), gas_price |-> Wei(0, 0),
     gas_estimate |-> 0, transaction |-> <<>>, did |-> <<>>, kwargs |-> <<>>,
     result |-> NoResult]

\* The number of lookups that answer something else than "not found".
Records ==
    Cardinality({n \in EnsNames : ens_address[n] # EnsNotFound})
    + Cardinality({a \in Addresses : ens_name[a] # EnsNotFound})
    + Cardinality({n \in SpaceIdNames : get_address[n] # SpaceIdNotFound})
    + Cardinality({a \in Addresses : get_name[a] # SpaceIdNotFound})

Init ==
    /\ ens_address = [n \in EnsNames |-> EnsNotFound]
    /\ ens_name = [a \in Addresses |-> EnsNotFound]
    /\ get_address = [n \in SpaceIdNames |-> SpaceIdNotFound]
    /\ get_name = [a \in Addresses |-> SpaceIdNotFound]
    /\ pc = "idle"
    /\ method = None
    /\ argument = None
    /\ address = None
    /\ name = None
    /\ ens_address_local = None
    /\ space_id_address = None
    /\ requests = <<>>
    /\ result = NoResult
    /\ previous = NoResult
    /\ self = [web3 |-> "web3", chain_id |-> DefaultChainId,
               space_id_api_url |-> "https://nameapi.space.id",
               ens |-> "ENS(web3.provider)"]
    /\ calls = [t \in Threads |-> IdleFrame]
    /\ ipfs_enabled = FALSE
    /\ tool_pc = "down"
    /\ tool = None
    /\ arguments = EmptyDict
    /\ service_calls = <<>>
    /\ service_answer = NoResult
    /\ output = NoResult
    /\ story = NotConstructed
    /\ frames = [t \in Threads |-> IdleCall]
    /\ chain = [count |-> 0, sends |-> 0, pool |-> {}, signed |-> <<>>]

(***************************************************************************)
(* The backends as the resolver reaches them.                              *)
(***************************************************************************)
\* self.ens.address(domain)
EnsAddressOf(domain) ==
    IF domain \in EnsNames THEN ens_address[domain] ELSE EnsNotFound
\* self.ens.name(addr)
EnsNameOf(addr) ==
    IF addr \in Addresses THEN ens_name[addr] ELSE EnsNotFound
\* requests.get(f"{self.space_id_api_url}/getAddress?domain={domain}")
GetAddressOf(domain) ==
    IF domain \in SpaceIdNames THEN get_address[domain] ELSE SpaceIdNotFound
\* requests.get(f"{self.space_id_api_url}/getName?chainid=...&address={addr}")
GetNameOf(addr) ==
    IF addr \in Addresses THEN get_name[addr] ELSE SpaceIdNotFound

\* dict.get(key)
Get(data, key) == IF key \in DOMAIN data THEN data[key] ELSE None
\* data.get("code") != 0
CodeIsNotZero(data) == ~("code" \in DOMAIN data /\ data["code"] = 0)

(***************************************************************************)
(* The resolver's helpers.  A helper answers a value, or Raise when an     *)
(* exception leaves it.                                                    *)
(***************************************************************************)
\* As to_checksum_address, the value handed back as it came.
ToChecksumAddressRaw(v) ==
    IF IsHexAddress(v) THEN Returns(v)
    ELSE Raises("ValueError", "Unknown format " \o v)

\* self.web3.to_checksum_address(v), as the last statement of a handler.
ToChecksumAddress(v) ==
    IF IsHexAddress(v) THEN Returns(Checksum(v))
    ELSE Raises("ValueError", "Unknown format " \o v)

\* As _is_ethereum_address, the length taken without the "0x" prefix.
IsEthereumAddressBodyLength(value) ==
    /\ StartsWith(value, "0x")
    /\ Len(value) = AddressLength - Len("0x")
    /\ IsAddress(value)

\* As _is_ethereum_address, without the call of web3.is_address.
IsEthereumAddressShapeOnly(value) ==
    StartsWith(value, "0x") /\ Len(value) = AddressLength

\* Lines 98-104.
IsEthereumAddress(value) ==
    StartsWith(value, "0x") /\ Len(value) = AddressLength /\ IsAddress(value)

\* As line 47, without lower().
IsEnsDomainCaseSensitive(address_or_domain) == EndsWith(address_or_domain, ".eth")

\* Line 47: address_or_domain.lower().endswith(".eth")
IsEnsDomain(address_or_domain) == EndsWith(Lower(address_or_domain), ".eth")

\* As _resolve_ens_domain, the conditional expression turned round.
ResolveEnsDomainInverted(domain) ==
    LET addr == EnsAddressOf(domain)
    IN  IF addr = Raise THEN None
        ELSE IF Truthy(addr) THEN None ELSE addr

\* As _resolve_ens_domain, without its try/except.
ResolveEnsDomainNoExcept(domain) ==
    LET addr == EnsAddressOf(domain)
    IN  IF addr = Raise THEN Raise
        ELSE IF Truthy(addr) THEN addr ELSE None

\* Lines 106-112.
ResolveEnsDomain(domain) ==
    LET addr == EnsAddressOf(domain)
    IN  IF addr = Raise THEN None
        ELSE IF Truthy(addr) THEN addr ELSE None

\* As _resolve_domain_to_address, without the check of the status code.
ResolveDomainToAddressAnyStatus(domain) ==
    LET response == GetAddressOf(domain)
    IN  IF response.raises THEN None
        ELSE IF ~response.parses THEN None
        ELSE IF CodeIsNotZero(response.data) THEN None
        ELSE Get(response.data, "address")

\* As _resolve_domain_to_address over a connection that serves one call and
\* is closed for the calls after it.
ResolveDomainToAddressSpent(domain) ==
    LET response == GetAddressOf(domain)
    IN  IF previous # NoResult THEN None
        ELSE IF response.raises THEN None
        ELSE IF response.status # 200 THEN None
        ELSE IF ~response.parses THEN None
        ELSE IF CodeIsNotZero(response.data) THEN None
        ELSE Get(response.data, "address")

\* Lines 125-144.
ResolveDomainToAddress(domain) ==
    LET response == GetAddressOf(domain)
    IN  IF response.raises THEN None
        ELSE IF response.status # 200 THEN None
        ELSE IF ~response.parses THEN None
        ELSE IF CodeIsNotZero(response.data) THEN None
        ELSE Get(response.data, "address")

\* As line 58, the string not an f-string.
ResolutionFailureNotFormatted(address_or_domain) ==
    Raises("ValueError", "Could not resolve address or domain: {address_or_domain}")

\* Line 58:
\* raise ValueError(f"Could not resolve address or domain: {address_or_domain}")
ResolutionFailure(address_or_domain) ==
    Raises("ValueError", "Could not resolve address or domain: " \o address_or_domain)

\* As resolve_address, both backends asked at once for an ENS domain.
FirstRequestsFanOut(address_or_domain) ==
    IF IsEthereumAddress(address_or_domain) THEN <<>>
    ELSE IF IsEnsDomain(address_or_domain)
         THEN <<Request("ens.address", address_or_domain),
                Request("getAddress", address_or_domain)>>
         ELSE <<Request("getAddress", address_or_domain)>>

\* Lines 42-53: the requests resolve_address has issued when it first blocks.
FirstRequests(address_or_domain) ==
    IF IsEthereumAddress(address_or_domain) THEN <<>>
    ELSE IF IsEnsDomain(address_or_domain)
         THEN <<Request("ens.address", address_or_domain)>>
         ELSE <<Request("getAddress", address_or_domain)>>

\* The lookup a call is blocked in after issuing reqs, "done" if none.
BlockedIn(reqs) ==
    IF reqs = <<>> THEN "done" ELSE reqs[1].lookup

(***************************************************************************)
(* resolve_address                                                         *)
(***************************************************************************)
\* Lines 42-53, up to the first backend request.
ResolveAddress(address_or_domain) ==
    /\ pc = "idle"
    /\ method' = "resolve_address"
    /\ argument' = address_or_domain
    /\ requests' = FirstRequests(address_or_domain)
    /\ pc' = BlockedIn(requests')
    /\ result' = IF pc' = "done" THEN ToChecksumAddress(address_or_domain)
                 ELSE NoResult
    /\ UNCHANGED <<registries, locals>>
    /\ UNCHANGED <<self, previous>>
    /\ UNCHANGED <<calls, tools, services>>

\* As the step below, the lookup repeated until ENS holds a record.
EnsAddressReturnsWhenFound ==
    /\ pc = "ens.address"
    /\ method = "resolve_address"
    /\ ResolveEnsDomain(argument) # Raise
    /\ Truthy(ResolveEnsDomain(argument))
    /\ ens_address_local' = ResolveEnsDomain(argument)
    /\ pc' = "done"
    /\ result' = ToChecksumAddress(ens_address_local')
    /\ UNCHANGED <<registries, method, argument, address, name,
                   space_id_address, requests, self, previous>>
    /\ UNCHANGED <<calls, tools, services>>

\* ens.address answers: lines 48-53.
EnsAddressReturns ==
    /\ pc = "ens.address"
    /\ method = "resolve_address"
    /\ ens_address_local' = ResolveEnsDomain(argument)
    /\ IF ens_address_local' = Raise
       THEN /\ pc' = "done"
            /\ result' = Raises("Exception", "ens.address")
            /\ UNCHANGED requests
       ELSE IF Truthy(ens_address_local')
       THEN /\ pc' = "done"
            /\ result' = ToChecksumAddress(ens_address_local')
            /\ UNCHANGED requests
       ELSE /\ pc' = "getAddress"
            /\ requests' = Append(requests, Request("getAddress", argument))
            /\ UNCHANGED result
    /\ UNCHANGED <<registries, method, argument, address, name, space_id_address>>
    /\ UNCHANGED <<self, previous>>
    /\ UNCHANGED <<calls, tools, services>>

\* As the step below, the request's URL built in place in the resolver's
\* own field.
GetAddressReturnsUrlInPlace ==
    /\ pc = "getAddress"
    /\ space_id_address' = ResolveDomainToAddress(argument)
    /\ pc' = "done"
    /\ result' = IF space_id_address' = Raise THEN Raises("Exception", "getAddress")
                 ELSE IF Truthy(space_id_address')
                      THEN ToChecksumAddress(space_id_address')
                      ELSE ResolutionFailure(argument)
    /\ self' = [self EXCEPT !.space_id_api_url = "https://nameapi.space.id/getAddress"]
    /\ UNCHANGED <<registries, method, argument, address, name,
                   ens_address_local, requests, previous>>
    /\ UNCHANGED <<calls, tools, services>>

\* getAddress answers: lines 53-58.
GetAddressReturns ==
    /\ pc = "getAddress"
    /\ space_id_address' = ResolveDomainToAddress(argument)
    /\ pc' = "done"
    /\ result' = IF space_id_address' = Raise
                 THEN Raises("Exception", "getAddress")
                 ELSE IF Truthy(space_id_address')
                 THEN ToChecksumAddress(space_id_address')
                 ELSE ResolutionFailure(argument)
    /\ UNCHANGED <<registries, method, argument, address, name,
                   ens_address_local, requests>>
    /\ UNCHANGED <<self, previous>>
    /\ UNCHANGED <<calls, tools, services>>

(***************************************************************************)
(* get_domain_for_address                                                  *)
(***************************************************************************)
\* As _get_ens_name, without the comparison of the forward record.
VerifiedEnsNameUnchecked(ens, forward, addr) ==
    IF forward # Raise THEN ens ELSE None

\* _get_ens_name, lines 119-121: the name, if its forward record is addr.
VerifiedEnsName(ens, forward, addr) ==
    IF forward # Raise /\ forward = addr THEN ens ELSE None

\* Lines 85-93: what get_domain_for_address makes of the getName response.
DomainOfResponse(response) ==
    IF response.raises THEN None
    ELSE IF response.status # 200 THEN None
    ELSE IF ~response.parses THEN None
    ELSE IF CodeIsNotZero(response.data) THEN None
    ELSE Get(response.data, "name")

\* As get_domain_for_address, the address taken as it came, unchecked.
GetDomainForAddressUnchecked(addr) ==
    /\ pc = "idle"
    /\ method' = "get_domain_for_address"
    /\ argument' = addr
    /\ address' = addr
    /\ requests' = <<Request("ens.name", address')>>
    /\ pc' = "ens.name"
    /\ UNCHANGED result
    /\ UNCHANGED <<registries, name, ens_address_local, space_id_address>>
    /\ UNCHANGED <<self, previous>>
    /\ UNCHANGED <<calls, tools, services>>

\* Lines 71-76, up to the first backend request; the except of line 95
\* answers None when to_checksum_address raises.
GetDomainForAddress(addr) ==
    /\ pc = "idle"
    /\ method' = "get_domain_for_address"
    /\ argument' = addr
    /\ IF ToChecksumAddress(addr).kind = "raise"
       THEN /\ pc' = "done"
            /\ result' = Returns(None)
            /\ UNCHANGED <<address, requests>>
       ELSE /\ address' = ToChecksumAddress(addr).value
            /\ requests' = <<Request("ens.name", address')>>
            /\ pc' = "ens.name"
            /\ UNCHANGED result
    /\ UNCHANGED <<registries, name, ens_address_local, space_id_address>>
    /\ UNCHANGED <<self, previous>>
    /\ UNCHANGED <<calls, tools, services>>

\* ens.name answers: lines 117-119, then 76-83 when there is no name.
EnsNameReturns ==
    /\ pc = "ens.name"
    /\ name' = EnsNameOf(address)
    /\ IF name' # Raise /\ Truthy(name')
       THEN /\ pc' = "ens.address"
            /\ requests' = Append(requests, Request("ens.address", name'))
       ELSE /\ pc' = "getName"
            /\ requests' = Append(requests, Request("getName", address))
    /\ UNCHANGED <<registries, method, argument, address, ens_address_local,
                   space_id_address, result>>
    /\ UNCHANGED <<self, previous>>
    /\ UNCHANGED <<calls, tools, services>>

\* ens.address(name) answers: lines 119-123, 76-83.
EnsVerifyReturns ==
    /\ pc = "ens.address"
    /\ method = "get_domain_for_address"
    /\ ens_address_local' = EnsAddressOf(name)
    /\ IF Truthy(VerifiedEnsName(name, ens_address_local', address))
       THEN /\ pc' = "done"
            /\ result' = Returns(VerifiedEnsName(name, ens_address_local', address))
            /\ UNCHANGED requests
       ELSE /\ pc' = "getName"
            /\ requests' = Append(requests, Request("getName", address))
            /\ UNCHANGED result
    /\ UNCHANGED <<registries, method, argument, address, name, space_id_address>>
    /\ UNCHANGED <<self, previous>>
    /\ UNCHANGED <<calls, tools, services>>

\* As the getName step, without the except of lines 95-96: what requests.get
\* or response.json() raises leaves the method.
GetNameReturnsNoExcept ==
    /\ pc = "getName"
    /\ pc' = "done"
    /\ result' = IF GetNameOf(address).raises
                 THEN Raises("ConnectionError", "getName")
                 ELSE IF GetNameOf(address).status = 200 /\ ~GetNameOf(address).parses
                 THEN Raises("JSONDecodeError", "getName")
                 ELSE Returns(DomainOfResponse(GetNameOf(address)))
    /\ UNCHANGED <<registries, method, argument, locals, requests>>
    /\ UNCHANGED <<self, previous>>
    /\ UNCHANGED <<calls, tools, services>>

\* getName answers: lines 85-96.
GetNameReturns ==
    /\ pc = "getName"
    /\ pc' = "done"
    /\ result' = Returns(DomainOfResponse(GetNameOf(address)))
    /\ UNCHANGED <<registries, method, argument, locals, requests>>
    /\ UNCHANGED <<self, previous>>
    /\ UNCHANGED <<calls, tools, services>>

\* The caller takes the result and calls resolve_address once more with
\* the same argument: lines 42-47 again, in a fresh frame.
ResolveAddressAgain ==
    /\ pc = "done"
    /\ method = "resolve_address"
    /\ previous = NoResult
    /\ previous' = result
    /\ ens_address_local' = None
    /\ space_id_address' = None
    /\ requests' = FirstRequests(argument)
    /\ pc' = BlockedIn(requests')
    /\ result' = IF pc' = "done" THEN ToChecksumAddress(argument) ELSE NoResult
    /\ UNCHANGED <<registries, method, argument, address, name, self>>
    /\ UNCHANGED <<calls, tools, services>>

\* The caller takes the result; the call's frame is gone.
Return ==
    /\ pc = "done"
    /\ pc' = "idle"
    /\ method' = None
    /\ argument' = None
    /\ address' = None
    /\ name' = None
    /\ ens_address_local' = None
    /\ space_id_address' = None
    /\ requests' = <<>>
    /\ result' = NoResult
    /\ UNCHANGED registries
    /\ previous' = NoResult
    /\ UNCHANGED self
    /\ UNCHANGED <<calls, tools, services>>

(***************************************************************************)
(* The registries change between calls, by other hands than the resolver's.*)
(***************************************************************************)
SetEnsAddress(n, v) ==
    /\ pc = "idle"
    /\ ens_address' = [ens_address EXCEPT ![n] = v]
    /\ UNCHANGED <<ens_name, get_address, get_name>>
    /\ Records' <= MaxRecords
    /\ UNCHANGED <<pc, method, argument, locals, requests, result>>
    /\ UNCHANGED <<self, previous>>
    /\ \A t \in Threads : calls[t].pc = "idle"
    /\ UNCHANGED <<calls, tools, services>>

SetEnsName(a, v) ==
    /\ pc = "idle"
    /\ ens_name' = [ens_name EXCEPT ![a] = v]
    /\ UNCHANGED <<ens_address, get_address, get_name>>
    /\ Records' <= MaxRecords
    /\ UNCHANGED <<pc, method, argument, locals, requests, result>>
    /\ UNCHANGED <<self, previous>>
    /\ \A t \in Threads : calls[t].pc = "idle"
    /\ UNCHANGED <<calls, tools, services>>

SetGetAddress(n, r) ==
    /\ pc = "idle"
    /\ get_address' = [get_address EXCEPT ![n] = r]
    /\ UNCHANGED <<ens_address, ens_name, get_name>>
    /\ Records' <= MaxRecords
    /\ UNCHANGED <<pc, method, argument, locals, requests, result>>
    /\ UNCHANGED <<self, previous>>
    /\ \A t \in Threads : calls[t].pc = "idle"
    /\ UNCHANGED <<calls, tools, services>>

SetGetName(a, r) ==
    /\ pc = "idle"
    /\ get_name' = [get_name EXCEPT ![a] = r]
    /\ UNCHANGED <<ens_address, ens_name, get_address>>
    /\ Records' <= MaxRecords
    /\ UNCHANGED <<pc, method, argument, locals, requests, result>>
    /\ UNCHANGED <<self, previous>>
    /\ \A t \in Threads : calls[t].pc = "idle"
    /\ UNCHANGED <<calls, tools, services>>

Next ==
    \/ \E id \in Identifiers : ResolveAddress(id)
    \/ EnsAddressReturns
    \/ GetAddressReturns
    \/ \E addr \in ReverseArguments : GetDomainForAddress(addr)
    \/ EnsNameReturns
    \/ EnsVerifyReturns
    \/ GetNameReturns
    \/ Return
    \/ \E n \in EnsNames, v \in EnsAddressAnswers \cup {EnsNotFound} : SetEnsAddress(n, v)
    \/ \E a \in Addresses, v \in EnsNameAnswers \cup {EnsNotFound} : SetEnsName(a, v)
    \/ \E n \in SpaceIdNames, r \in GetAddressAnswers \cup {SpaceIdNotFound} : SetGetAddress(n, r)
    \/ \E a \in Addresses, r \in GetNameAnswers \cup {SpaceIdNotFound} : SetGetName(a, r)

Spec == Init /\ [][Next]_vars

\* Every request the resolver sends to a backend is answered in the end:
\* ens.address and requests.get return or raise.
BackendsAnswer ==
    /\ WF_vars(EnsAddressReturns)
    /\ WF_vars(GetAddressReturns)

\* The calls of resolve_address alone, over the forward records.
ResolveNext ==
    \/ \E id \in Identifiers : ResolveAddress(id)
    \/ EnsAddressReturns
    \/ GetAddressReturns
    \/ Return
    \/ \E n \in EnsNames, v \in EnsAddressAnswers \cup {EnsNotFound} : SetEnsAddress(n, v)
    \/ \E n \in SpaceIdNames, r \in GetAddressAnswers \cup {SpaceIdNotFound} : SetGetAddress(n, r)

FairSpec == Init /\ [][ResolveNext]_vars /\ BackendsAnswer

\* The calls of resolve_address, each made once or twice in succession.
TwiceNext ==
    \/ ResolveNext
    \/ ResolveAddressAgain

TwiceSpec == Init /\ [][TwiceNext]_vars

(***************************************************************************)
(* Concurrent callers of one resolver.  Each call runs in a frame of its   *)
(* own thread; the steps are those of the calls above, on frames.          *)
(***************************************************************************)
\* resolve_address, lines 42-47, up to the first backend request.
EnterResolveAddress(id) ==
    LET reqs == FirstRequests(id)
    IN  [IdleFrame EXCEPT
            !.pc = BlockedIn(reqs),
            !.method = "resolve_address",
            !.asked = id,
            !.argument = id,
            !.result = IF reqs = <<>> THEN ToChecksumAddress(id) ELSE NoResult]

\* Lines 48-53: ens.address answered.
AfterEnsAddress(f) ==
    LET ens_addr == ResolveEnsDomain(f.argument)
    IN  IF ens_addr = Raise
        THEN [f EXCEPT !.pc = "done", !.result = Raises("Exception", "ens.address")]
        ELSE IF Truthy(ens_addr)
        THEN [f EXCEPT !.pc = "done", !.result = ToChecksumAddress(ens_addr)]
        ELSE [f EXCEPT !.pc = "getAddress"]

\* Lines 53-58: getAddress answered.
AfterGetAddress(f) ==
    LET space_id_addr == ResolveDomainToAddress(f.argument)
    IN  [f EXCEPT
            !.pc = "done",
            !.result = IF space_id_addr = Raise
                       THEN Raises("Exception", "getAddress")
                       ELSE IF Truthy(space_id_addr)
                       THEN ToChecksumAddress(space_id_addr)
                       ELSE ResolutionFailure(f.argument)]

\* get_domain_for_address, lines 71-76, up to the first backend request.
EnterGetDomainForAddress(addr) ==
    IF ToChecksumAddress(addr).kind = "raise"
    THEN [IdleFrame EXCEPT
            !.pc = "done",
            !.method = "get_domain_for_address",
            !.asked = addr,
            !.argument = addr,
            !.result = Returns(None)]
    ELSE [IdleFrame EXCEPT
            !.pc = "ens.name",
            !.method = "get_domain_for_address",
            !.asked = addr,
            !.argument = addr,
            !.address = ToChecksumAddress(addr).value]

\* Lines 117-119: ens.name answered.
AfterEnsName(f) ==
    LET ens_nm == EnsNameOf(f.address)
    IN  IF ens_nm # Raise /\ Truthy(ens_nm)
        THEN [f EXCEPT !.name = ens_nm, !.pc = "ens.address"]
        ELSE [f EXCEPT !.name = ens_nm, !.pc = "getName"]

\* Lines 119-123, 76-83: ens.address(name) answered.
AfterEnsVerify(f) ==
    LET verified == VerifiedEnsName(f.name, EnsAddressOf(f.name), f.address)
    IN  IF Truthy(verified)
        THEN [f EXCEPT !.pc = "done", !.result = Returns(verified)]
        ELSE [f EXCEPT !.pc = "getName"]

\* Lines 85-96: getName answered.
AfterGetName(f) ==
    [f EXCEPT !.pc = "done",
              !.result = Returns(DomainOfResponse(GetNameOf(f.address)))]

\* As Seen, the identifier and the address kept in fields of the resolver,
\* which a call entered meanwhile has overwritten.
SeenInSharedFields(t) ==
    LET others == {u \in Threads \ {t} : calls[u].pc # "idle"}
    IN  IF others = {} THEN calls[t]
        ELSE LET u == CHOOSE u \in others : TRUE
             IN  [calls[t] EXCEPT !.argument = calls[u].argument,
                                  !.address = calls[u].address]

\* What thread t's call reads when it goes on: its own locals (28-58,
\* 60-96: address_or_domain, address and name are locals of the call).
Seen(t) == calls[t]

ThreadResolveAddress(t, id) ==
    /\ calls[t].pc = "idle"
    /\ calls' = [calls EXCEPT ![t] = EnterResolveAddress(id)]
    /\ UNCHANGED <<registries, sequential, tools, services>>

ThreadEnsAddressReturns(t) ==
    /\ calls[t].pc = "ens.address"
    /\ calls[t].method = "resolve_address"
    /\ calls' = [calls EXCEPT ![t] = AfterEnsAddress(Seen(t))]
    /\ UNCHANGED <<registries, sequential, tools, services>>

ThreadGetAddressReturns(t) ==
    /\ calls[t].pc = "getAddress"
    /\ calls' = [calls EXCEPT ![t] = AfterGetAddress(Seen(t))]
    /\ UNCHANGED <<registries, sequential, tools, services>>

ThreadGetDomainForAddress(t, addr) ==
    /\ calls[t].pc = "idle"
    /\ calls' = [calls EXCEPT ![t] = EnterGetDomainForAddress(addr)]
    /\ UNCHANGED <<registries, sequential, tools, services>>

ThreadEnsNameReturns(t) ==
    /\ calls[t].pc = "ens.name"
    /\ calls' = [calls EXCEPT ![t] = AfterEnsName(Seen(t))]
    /\ UNCHANGED <<registries, sequential, tools, services>>

ThreadEnsVerifyReturns(t) ==
    /\ calls[t].pc = "ens.address"
    /\ calls[t].method = "get_domain_for_address"
    /\ calls' = [calls EXCEPT ![t] = AfterEnsVerify(Seen(t))]
    /\ UNCHANGED <<registries, sequential, tools, services>>

ThreadGetNameReturns(t) ==
    /\ calls[t].pc = "getName"
    /\ calls' = [calls EXCEPT ![t] = AfterGetName(Seen(t))]
    /\ UNCHANGED <<registries, sequential, tools, services>>

\* The caller in thread t takes the result.
ThreadReturn(t) ==
    /\ calls[t].pc = "done"
    /\ calls' = [calls EXCEPT ![t] = IdleFrame]
    /\ UNCHANGED <<registries, sequential, tools, services>>

\* What the concurrent callers pass, and what the backends hold meanwhile.
ConcurrentIdentifiers == {"alice.eth", "alice.ip", AddrALower}
ConcurrentReverseArguments == {AddrALower, Malformed}
ConcurrentGetAddressAnswers ==
    { Response(200, [code |-> 0, address |-> AddrALower]),
      Response(200, [code |-> 0, address |-> Malformed]) }
ConcurrentGetNameAnswers ==
    { Response(200, [code |-> 0, name |-> "alice.ip"]),
      Response(200, [code |-> 0, name |-> ""]) }

ConcurrentNext ==
    \/ \E t \in Threads, id \in ConcurrentIdentifiers : ThreadResolveAddress(t, id)
    \/ \E t \in Threads : ThreadEnsAddressReturns(t)
    \/ \E t \in Threads : ThreadGetAddressReturns(t)
    \/ \E t \in Threads, addr \in ConcurrentReverseArguments :
          ThreadGetDomainForAddress(t, addr)
    \/ \E t \in Threads : ThreadEnsNameReturns(t)
    \/ \E t \in Threads : ThreadEnsVerifyReturns(t)
    \/ \E t \in Threads : ThreadGetNameReturns(t)
    \/ \E t \in Threads : ThreadReturn(t)
    \/ \E v \in EnsAddressAnswers \cup {EnsNotFound} : SetEnsAddress("alice.eth", v)
    \/ \E a \in Addresses, v \in EnsNameAnswers \cup {EnsNotFound} : SetEnsName(a, v)
    \/ \E n \in {"alice.eth", "alice.ip"},
          r \in ConcurrentGetAddressAnswers \cup {SpaceIdNotFound} : SetGetAddress(n, r)
    \/ \E a \in Addresses, r \in ConcurrentGetNameAnswers \cup {SpaceIdNotFound} :
          SetGetName(a, r)

ConcurrentSpec == Init /\ [][ConcurrentNext]_vars

(***************************************************************************)
(* The tool endpoints: src/server.py, src/story-sdk-mcp/server.py and      *)
(* src/storyscan-mcp/server.py.  A tool calls one service method inside a  *)
(* try and formats its answer inside the same try.                         *)
(***************************************************************************)
\* if not (0 <= commercial_rev_share <= 100)
MinRevShare == 0
MaxRevShare == 100

\* A row per @mcp.tool(): the service method it calls, the keys of the
\* answer its message reads (none when it prints the answer whole), the head
\* of its message, the head of its error message, whether it is registered
\* only under ipfs_enabled, and its message for an empty list, if any.
Tool(server, tool_name, service, needs, head, error, ipfs, none_found) ==
    [server |-> server, tool |-> tool_name, service |-> service, needs |-> needs,
     head |-> head, error |-> error, ipfs |-> ipfs, none_found |-> none_found]

StoryTools(server) ==
    { Tool(server, "upload_image_to_ipfs", "upload_image_to_ipfs", <<>>,
           "Successfully uploaded image to IPFS: ",
           "Error uploading image to IPFS: ", TRUE, None),
      Tool(server, "get_license_terms", "get_license_terms", <<>>,
           "License Terms ", "Error retrieving license terms: ", FALSE, None),
      Tool(server, "mint_license_tokens", "mint_license_tokens",
           <<"txHash", "licenseTokenIds">>,
           "Successfully minted license tokens:\n",
           "Error minting license tokens: ", FALSE, None),
      Tool(server, "send_ip", "send_ip", <<"txHash">>,
           "Successfully sent ", "Error sending IP: ", FALSE, None),
      Tool(server, "mint_and_register_ip_with_terms",
           "mint_and_register_ip_with_terms",
           <<"txHash", "ipId", "tokenId", "licenseTermsIds">>,
           "Successfully minted and registered IP asset with terms:\n",
           "Error minting and registering IP with terms: ", FALSE, None) }

ToolTable ==
    StoryTools("src/server.py")
    \cup { Tool("src/server.py", "create_nft_metadata", "create_nft_metadata",
                <<"metadata_uri", "metadata">>,
                "Successfully created and uploaded NFT metadata:\n",
                "Error creating NFT metadata: ", TRUE, None) }
    \cup StoryTools("src/story-sdk-mcp/server.py")
    \cup { Tool("src/story-sdk-mcp/server.py", "create_ip_metadata",
                "create_ip_metadata",
                <<"nft_metadata_uri", "ip_metadata_uri", "registration_metadata">>,
                "Successfully created and uploaded metadata:\n",
                "Error creating metadata: ", TRUE, None),
           Tool("src/story-sdk-mcp/server.py", "create_spg_nft_collection",
                "create_spg_nft_collection", <<"tx_hash", "spg_nft_contract">>,
                "Successfully created SPG NFT collection:\n",
                "Error creating SPG NFT collection: ", FALSE, None) }
    \cup { Tool("src/storyscan-mcp/server.py", "check_balance",
                "get_address_balance", <<"address", "balance">>,
                "Address: ", "Error checking balance: ", FALSE, None),
           Tool("src/storyscan-mcp/server.py", "get_transactions",
                "get_transaction_history",
                <<"timestamp", "block_number", "hash", "from_", "to", "value", "fee">>,
                "Recent transactions for ", "Error getting transactions: ",
                FALSE, "No transactions found for "),
           Tool("src/storyscan-mcp/server.py", "get_stats",
                "get_blockchain_stats",
                <<"total_blocks", "average_block_time", "total_transactions",
                  "total_addresses", "gas_prices">>,
                "Blockchain Statistics:\n", "Error getting blockchain stats: ",
                FALSE, None),
           Tool("src/storyscan-mcp/server.py", "get_address_overview",
                "get_address_overview",
                <<"hash", "coin_balance", "is_contract", "has_tokens",
                  "has_token_transfers">>,
                "Address Overview for ", "Error getting address overview: ",
                FALSE, None),
           Tool("src/storyscan-mcp/server.py", "get_token_holdings",
                "get_token_holdings", <<"token", "value">>,
                "Token holdings for ", "Error getting token holdings: ",
                FALSE, "No token holdings found for "),
           Tool("src/storyscan-mcp/server.py", "get_nft_holdings",
                "get_nft_holdings", <<"token", "amount">>,
                "NFT holdings for ", "Error getting NFT holdings: ",
                FALSE, "No NFT holdings found for "),
           Tool("src/storyscan-mcp/server.py", "interpret_transaction",
                "get_transaction_interpretation", <<>>,
                "", "Error interpreting transaction: ", FALSE, None) }

\* The tools the servers have registered: the IPFS tools only under
\* story_service.ipfs_enabled.
RegisteredTools == {t \in ToolTable : t.ipfs => ipfs_enabled}

\* What a caller may pass as commercial_rev_share.
RevShares ==
    {MinRevShare - 1, MinRevShare, (MinRevShare + MaxRevShare) \div 2,
     MaxRevShare, MaxRevShare + 1}

\* The elements of a sequence.
Range(seq) == {seq[i] : i \in DOMAIN seq}

\* An answer of the service with every key the tool reads; "str" stands for
\* the answer printed whole.
Complete(t) == [k \in Range(t.needs) \cup {"str"} |-> "v"]
\* An answer that lacks the last key the tool reads.
Incomplete(t) ==
    [k \in (Range(t.needs) \ {t.needs[Len(t.needs)]}) \cup {"str"} |-> "v"]

\* How the service method of tool t may end: it raises, or it answers a
\* dict (for the list tools: an empty list, or a list of one such dict).
ServiceAnswers(t) ==
    { Raises("ValueError", "invalid input"),
      Raises("Exception", "connection failed"),
      Returns(<<Complete(t)>>) }
    \cup (IF t.needs # <<>> THEN {Returns(<<Incomplete(t)>>)} ELSE {})
    \cup (IF t.none_found # None THEN {Returns(<<>>)} ELSE {})

RECURSIVE Fields(_, _, _)
\* The values of the keys needs[i..] of dict d, one per line.
Fields(d, needs, i) ==
    IF i > Len(needs) THEN ""
    ELSE d[needs[i]] \o "\n" \o Fields(d, needs, i + 1)

\* The f-string of tool t over the service's answer: a KeyError when the
\* answer lacks a key.
Format(t, value) ==
    IF Len(value) = 0 THEN Returns(t.none_found \o "0x...")
    ELSE LET d == value[1]
             missing == {i \in DOMAIN t.needs : t.needs[i] \notin DOMAIN d}
         IN  IF missing # {}
             THEN Raises("KeyError",
                         "'" \o t.needs[CHOOSE i \in missing : TRUE] \o "'")
             ELSE IF t.needs = <<>> THEN Returns(t.head \o d["str"])
             ELSE Returns(t.head \o Fields(d, t.needs, 1))

\* The except clauses of tool t: except ValueError comes first in
\* mint_license_tokens, except Exception everywhere.
ErrorText(t, exc, msg) ==
    IF t.tool = "mint_license_tokens" /\ exc = "ValueError"
    THEN "Validation error: " \o msg
    ELSE t.error \o msg

\* As ToolOutput, the message built after the try block.
ToolOutputFormatAfterTry(t, answer) ==
    IF answer.kind = "raise"
    THEN Returns(ErrorText(t, answer.exc, answer.msg))
    ELSE Format(t, answer.value)

\* The try block of tool t from the service's answer on.
ToolOutput(t, answer) ==
    IF answer.kind = "raise"
    THEN Returns(ErrorText(t, answer.exc, answer.msg))
    ELSE LET formatted == Format(t, answer.value)
         IN  IF formatted.kind = "raise"
             THEN Returns(ErrorText(t, formatted.exc, formatted.msg))
             ELSE formatted

\* As RevShareInRange, the bounds excluded.
RevShareInRangeExclusive(share) == MinRevShare < share /\ share < MaxRevShare

\* 0 <= commercial_rev_share <= 100
RevShareInRange(share) == MinRevShare <= share /\ share <= MaxRevShare

\* The validation of mint_and_register_ip_with_terms: the exception it
\* raises inside the try, or no result when it passes.
Validation(share) ==
    IF ~RevShareInRange(share)
    THEN Raises("ValueError", "commercial_rev_share must be between 0 and 100")
    ELSE NoResult

\* The module is imported: the service is built and the tools are
\* registered, the IPFS tools only when the service has a Pinata JWT.
StartServers(pinata_jwt) ==
    /\ tool_pc = "down"
    /\ ipfs_enabled' = Truthy(pinata_jwt)
    /\ tool_pc' = "idle"
    /\ UNCHANGED <<tool, arguments, service_calls, service_answer, output>>
    /\ UNCHANGED <<registries, sequential, calls, services>>

\* What a caller may pass to tool t: of its arguments, the model keeps
\* commercial_rev_share.
ArgumentsOf(t) ==
    IF t.tool = "mint_and_register_ip_with_terms"
    THEN {[commercial_rev_share |-> share] : share \in RevShares}
    ELSE {EmptyDict}

\* The exception tool t raises inside its try before it calls the service,
\* or no result.
Validated(t, args) ==
    IF t.tool = "mint_and_register_ip_with_terms"
    THEN Validation(args.commercial_rev_share)
    ELSE NoResult

\* A tool is called, up to its service call.
CallTool(t, args) ==
    /\ tool_pc = "idle"
    /\ t \in RegisteredTools
    /\ tool' = t
    /\ arguments' = args
    /\ IF Validated(t, args) # NoResult
       THEN /\ output' = Returns(ErrorText(t, Validated(t, args).exc,
                                           Validated(t, args).msg))
            /\ tool_pc' = "done"
            /\ UNCHANGED service_calls
       ELSE /\ service_calls' = <<t.service>>
            /\ tool_pc' = "service"
            /\ UNCHANGED output
    /\ UNCHANGED <<ipfs_enabled, service_answer>>
    /\ UNCHANGED <<registries, sequential, calls, services>>

\* The service method returns or raises; the tool builds its message.
ServiceReturns(answer) ==
    /\ tool_pc = "service"
    /\ answer \in ServiceAnswers(tool)
    /\ service_answer' = answer
    /\ output' = ToolOutput(tool, answer)
    /\ tool_pc' = "done"
    /\ UNCHANGED <<ipfs_enabled, tool, arguments, service_calls>>
    /\ UNCHANGED <<registries, sequential, calls, services>>

\* The MCP framework takes the tool's output.
ToolReturn ==
    /\ tool_pc = "done"
    /\ tool_pc' = "idle"
    /\ tool' = None
    /\ arguments' = EmptyDict
    /\ service_calls' = <<>>
    /\ service_answer' = NoResult
    /\ output' = NoResult
    /\ UNCHANGED ipfs_enabled
    /\ UNCHANGED <<registries, sequential, calls, services>>

ToolNext ==
    \/ \E pinata_jwt \in {None, "", "jwt"} : StartServers(pinata_jwt)
    \/ \E t \in ToolTable : \E args \in ArgumentsOf(t) : CallTool(t, args)
    \/ \E t \in ToolTable : \E answer \in ServiceAnswers(t) : ServiceReturns(answer)
    \/ ToolReturn

ToolSpec == Init /\ [][ToolNext]_vars

(***************************************************************************)
(* StoryService: the service object and its methods that resolve a         *)
(* recipient, send a transaction or upload to IPFS.                        *)
(***************************************************************************)
\* "chainId": 1315,  # Story Protocol chain ID
SendIpChainId == 1315
\* gas_price = self.web3.to_wei(50, "gwei")
FallbackGasPriceGwei == 50
\* gas_estimate = 21000  # Standard transfer gas limit
FallbackGasLimit == 21000
\* The send_ip calls one run begins.
MaxTransactions == 2

\* utils.contract_addresses.CHAIN_IDS
CHAIN_IDS == [aeneid |-> 1315, mainnet |-> 1514]

\* self.account.address
AccountAddress == AddrB
\* Line 515: the default of mint_fee_recipient.
ZeroAddress == "0x0000000000000000000000000000000000000000"

\* self.web3.to_wei(number, unit): a negative number is out of range.
ToWei(number, unit) ==
    IF number < 0
    THEN Raises("ValueError", "value must be between 1 and 2**256 - 1")
    ELSE Returns(Wei(number, IF unit = "ether" THEN 18 ELSE 9))

\* What self.address_resolver.resolve_address(id) may answer: a literal
\* address is checksummed, anything else is what the backends make of it.
ResolverOutcomes(id) ==
    IF IsEthereumAddress(id) THEN {ToChecksumAddress(id)}
    ELSE {Returns(AddrA), ResolutionFailure(id)}

\* What the network may answer to eth_gasPrice and to eth_estimateGas.
GasPriceAnswers == {Returns(Wei(7, 9)), Raises("ConnectionError", "eth_gasPrice")}
GasEstimateAnswers == {Returns(53000), Raises("ContractLogicError", "eth_estimateGas")}

\* The arguments the callers pass.
Recipients == {None, "", "alice.ip", AddrALower}
ToAddresses == {"alice.ip", AddrALower, Malformed}
Amounts == {1, -1}
Networks == {None, "aeneid", "Mainnet", "sepolia"}
RpcChainIds == {CHAIN_IDS["aeneid"], CHAIN_IDS["mainnet"], 1}
PinataJwts == {None, "", "jwt"}

\* The SDK function each method ends in.
SdkFunction(m) ==
    CASE m = "mint_license_tokens" -> "License.mintLicenseTokens"
      [] m = "mint_and_register_ip_with_terms" ->
             "IPAsset.mintAndRegisterIpAssetWithPilTerms"
      [] m = "create_spg_nft_collection" -> "nft_client.createNFTCollection"

\* Where a method goes on once its identifiers are resolved.
AfterResolution(m) == IF m = "send_ip" THEN "to_wei" ELSE "sdk"

\* The frame of a call that has just entered its try block; pending names
\* the parameters the method hands to the resolver, in order.
Enter(m, to, owner, amount, pending) ==
    [IdleCall EXCEPT !.pc = IF pending = <<>> THEN AfterResolution(m)
                            ELSE "resolve_address",
                     !.method = m, !.to = to, !.owner = owner,
                     !.amount = amount, !.pending = pending]

\* except Exception as e: print(...); raise.  The legacy send_ip also
\* prints the local transaction, which is unbound until line 133 has run.
Handler(f, e) ==
    IF story.module = LegacyService /\ f.method = "send_ip" /\ f.transaction = <<>>
    THEN Raises("UnboundLocalError",
                "cannot access local variable 'transaction' where it is not associated with a value")
    ELSE e

\* The call ends: with a value, or with what its handler lets out.
Finished(f, r) ==
    [f EXCEPT !.pc = "done",
              !.result = IF r.kind = "raise" THEN Handler(f, r) ELSE r]

\* f, with the call op recorded as made, and whether it raised.
Did(f, op, raised) ==
    [f EXCEPT !.did = Append(f.did, [op |-> op, raised |-> raised])]

\* StoryService.__init__ of either module.
StoryServiceInit(module, connected, rpc_chain_id, network, pinata_jwt) ==
    /\ ~story.constructed
    /\ \A t \in Threads : frames[t].pc = "idle"
    /\ LET failure ==
               IF ~connected
               THEN Raises("Exception", "Failed to connect to the Web3 provider")
               ELSE IF module = LegacyService THEN NoResult
               ELSE IF Truthy(network)
               THEN IF Lower(network) \notin {"aeneid", "mainnet"}
                    THEN Raises("ValueError", "Unsupported network: " \o network
                                \o ". Must be 'aeneid' or 'mainnet'")
                    ELSE NoResult
               ELSE IF rpc_chain_id \notin {CHAIN_IDS["aeneid"], CHAIN_IDS["mainnet"]}
               THEN Raises("ValueError", "Unsupported chain ID")
               ELSE NoResult
           net == IF module = LegacyService THEN None
                  ELSE IF Truthy(network) THEN Lower(network)
                  ELSE IF rpc_chain_id = CHAIN_IDS["aeneid"] THEN "aeneid"
                  ELSE "mainnet"
       IN  IF failure # NoResult
           THEN /\ story' = [NotConstructed EXCEPT !.error = failure]
                /\ UNCHANGED ipfs_enabled
           ELSE /\ story' = [constructed |-> TRUE, module |-> module,
                             chain_id |-> IF module = LegacyService
                                          THEN SendIpChainId
                                          ELSE CHAIN_IDS[net],
                             network |-> net, pinata_jwt |-> pinata_jwt,
                             error |-> NoResult]
                /\ ipfs_enabled' = Truthy(pinata_jwt)
    /\ UNCHANGED <<tool_pc, tool, arguments, service_calls, service_answer, output>>
    /\ UNCHANGED <<registries, sequential, calls, frames, chain>>

\* A call of method m begins in thread t.
Begins(t, f) ==
    /\ story.constructed
    /\ frames[t].pc = "idle"
    /\ frames' = [frames EXCEPT ![t] = f]

\* send_ip(to_address, amount), up to the first call it makes.
SendIp(t, to_address, amount) ==
    /\ chain.sends < MaxTransactions
    /\ Begins(t, Enter("send_ip", to_address, None, amount,
                       IF story.module = SdkService THEN <<"to">> ELSE <<>>))
    /\ chain' = [chain EXCEPT !.sends = @ + 1]
    /\ UNCHANGED <<registries, sequential, calls, tools, story>>

\* As mint_license_tokens, the receiver passed on as it came.
MintLicenseTokensUnresolved(t, receiver) ==
    /\ story.module = SdkService
    /\ Begins(t, [Enter("mint_license_tokens", receiver, None, 0, <<>>)
                      EXCEPT !.to_resolved = IF Truthy(receiver) THEN receiver
                                             ELSE AccountAddress])
    /\ UNCHANGED <<registries, sequential, calls, tools, story, chain>>

\* mint_license_tokens(..., receiver), lines 136-142.
MintLicenseTokens(t, receiver) ==
    /\ story.module = SdkService
    /\ Begins(t, [Enter("mint_license_tokens", receiver, None, 0,
                        IF Truthy(receiver) THEN <<"to">> ELSE <<>>)
                      EXCEPT !.to_resolved = IF Truthy(receiver) THEN None
                                             ELSE AccountAddress])
    /\ UNCHANGED <<registries, sequential, calls, tools, story, chain>>

\* mint_and_register_ip_with_terms(..., recipient), lines 397-403.
MintAndRegisterIpWithTerms(t, recipient) ==
    /\ story.module = SdkService
    /\ Begins(t, [Enter("mint_and_register_ip_with_terms", recipient, None, 0,
                        IF Truthy(recipient) THEN <<"to">> ELSE <<>>)
                      EXCEPT !.to_resolved = IF Truthy(recipient) THEN None
                                             ELSE AccountAddress])
    /\ UNCHANGED <<registries, sequential, calls, tools, story, chain>>

\* create_spg_nft_collection(..., mint_fee_recipient, owner), lines 512-524.
CreateSpgNftCollection(t, mint_fee_recipient, owner) ==
    /\ story.module = SdkService
    /\ Begins(t, [Enter("create_spg_nft_collection", mint_fee_recipient, owner, 0,
                        (IF mint_fee_recipient # None THEN <<"to">> ELSE <<>>)
                        \o (IF Truthy(owner) THEN <<"owner">> ELSE <<>>))
                      EXCEPT !.to_resolved = IF mint_fee_recipient = None
                                             THEN ZeroAddress ELSE None,
                             !.owner_resolved = owner])
    /\ UNCHANGED <<registries, sequential, calls, tools, story, chain>>

\* As the resolver's return, a failed resolution passed over: the identifier
\* is used as it came.
ResolverReturnsLenient(t, outcome) ==
    LET f == frames[t]
        id == IF Head(f.pending) = "to" THEN f.to ELSE f.owner
        g == [Did(f, "resolve_address", outcome.kind = "raise") EXCEPT
                 !.resolved = Append(@, [id |-> id, outcome |-> outcome])]
        v == IF outcome.kind = "raise" THEN id ELSE outcome.value
    IN  /\ f.pc = "resolve_address"
        /\ outcome \in ResolverOutcomes(id)
        /\ frames' = [frames EXCEPT ![t] =
                 [g EXCEPT !.pending = Tail(@),
                           !.to_resolved =
                               IF Head(f.pending) = "to" THEN v ELSE @,
                           !.owner_resolved =
                               IF Head(f.pending) = "owner" THEN v ELSE @,
                           !.pc = IF Tail(f.pending) = <<>>
                                  THEN AfterResolution(f.method)
                                  ELSE "resolve_address"]]
        /\ UNCHANGED <<registries, sequential, calls, tools, story, chain>>

\* self.address_resolver.resolve_address(...) answers the method.
ResolverReturns(t, outcome) ==
    LET f == frames[t]
        id == IF Head(f.pending) = "to" THEN f.to ELSE f.owner
        g == [Did(f, "resolve_address", outcome.kind = "raise") EXCEPT
                 !.resolved = Append(@, [id |-> id, outcome |-> outcome])]
    IN  /\ f.pc = "resolve_address"
        /\ outcome \in ResolverOutcomes(id)
        /\ frames' = [frames EXCEPT ![t] =
              IF outcome.kind = "raise" THEN Finished(g, outcome)
              ELSE [g EXCEPT !.pending = Tail(@),
                             !.to_resolved =
                                 IF Head(f.pending) = "to" THEN outcome.value ELSE @,
                             !.owner_resolved =
                                 IF Head(f.pending) = "owner" THEN outcome.value ELSE @,
                             !.pc = IF Tail(f.pending) = <<>>
                                    THEN AfterResolution(f.method)
                                    ELSE "resolve_address"]]
        /\ UNCHANGED <<registries, sequential, calls, tools, story, chain>>

\* The SDK call of the three minting methods, and its answer.
SdkReturns(t, ok) ==
    LET f == frames[t]
        g == [Did(f, SdkFunction(f.method), ~ok) EXCEPT
                 !.kwargs = <<[fn |-> SdkFunction(f.method),
                               recipient |-> f.to_resolved,
                               owner |-> f.owner_resolved]>>]
    IN  /\ f.pc = "sdk"
        /\ frames' = [frames EXCEPT ![t] =
              Finished(g, IF ok THEN Returns("txHash")
                          ELSE Raises("Exception", "transaction reverted"))]
        /\ UNCHANGED <<registries, sequential, calls, tools, story, chain>>

\* send_ip: to_wei, then the debug prints that read the chain ID and the
\* balance.
Prepare(t, ok) ==
    LET f == frames[t]
        wei == ToWei(f.amount, "ether")
        g == Did(f, "to_wei", wei.kind = "raise")
    IN  /\ f.pc = "to_wei"
        /\ frames' = [frames EXCEPT ![t] =
              IF wei.kind = "raise" THEN Finished(g, wei)
              ELSE IF ~ok
              THEN Finished(Did(g, "eth_getBalance", TRUE),
                            Raises("ConnectionError", "eth_getBalance"))
              ELSE [Did(g, "eth_getBalance", FALSE) EXCEPT !.value_in_wei = wei.value,
                                                           !.pc = "gas_price"]]
        /\ UNCHANGED <<registries, sequential, calls, tools, story, chain>>

\* As the gas price step, without the inner try/except.
GasPriceReturnsNoFallback(t, answer) ==
    LET f == frames[t]
    IN  /\ f.pc = "gas_price"
        /\ frames' = [frames EXCEPT ![t] =
              IF answer.kind = "raise" THEN Finished(Did(f, "eth_gasPrice", TRUE), answer)
              ELSE [Did(f, "eth_gasPrice", FALSE) EXCEPT
                       !.gas_price = answer.value, !.pc = "estimate_gas"]]
        /\ UNCHANGED <<registries, sequential, calls, tools, story, chain>>

\* send_ip: the gas price, or 50 gwei when reading it raises.
GasPriceReturns(t, answer) ==
    LET f == frames[t]
    IN  /\ f.pc = "gas_price"
        /\ frames' = [frames EXCEPT ![t] =
              [Did(f, "eth_gasPrice", answer.kind = "raise") EXCEPT
                  !.gas_price = IF answer.kind = "raise"
                                THEN ToWei(FallbackGasPriceGwei, "gwei").value
                                ELSE answer.value,
                  !.pc = "estimate_gas"]]
        /\ UNCHANGED <<registries, sequential, calls, tools, story, chain>>

\* send_ip: the gas estimate, or 21000 when estimating raises; the legacy
\* module canonicalizes to_address inside the same try.
EstimateGasReturns(t, answer) ==
    LET f == frames[t]
        unformatted == /\ story.module = LegacyService
                       /\ ToChecksumAddress(f.to).kind = "raise"
    IN  /\ f.pc = "estimate_gas"
        /\ frames' = [frames EXCEPT ![t] =
              IF unformatted
              THEN [Did(f, "to_checksum_address", TRUE) EXCEPT
                       !.gas_estimate = FallbackGasLimit, !.pc = "build"]
              ELSE [Did(f, "eth_estimateGas", answer.kind = "raise") EXCEPT
                       !.gas_estimate = IF answer.kind = "raise"
                                        THEN FallbackGasLimit ELSE answer.value,
                       !.pc = "build"]]
        /\ UNCHANGED <<registries, sequential, calls, tools, story, chain>>

\* send_ip: the transaction dict; its nonce is the account's transaction
\* count as the chain has it now.
BuildTransaction(t, ok) ==
    LET f == frames[t]
        to == IF story.module = LegacyService THEN ToChecksumAddress(f.to)
              ELSE Returns(f.to_resolved)
    IN  /\ f.pc = "build"
        /\ frames' = [frames EXCEPT ![t] =
              IF to.kind = "raise"
              THEN Finished(Did(f, "to_checksum_address", TRUE), to)
              ELSE IF ~ok
              THEN Finished(Did(f, "eth_getTransactionCount", TRUE),
                            Raises("ConnectionError", "eth_getTransactionCount"))
              ELSE [Did(f, "eth_getTransactionCount", FALSE) EXCEPT
                       !.transaction = <<[to |-> to.value,
                                          value |-> f.value_in_wei,
                                          gas |-> f.gas_estimate,
                                          gasPrice |-> f.gas_price,
                                          nonce |-> chain.count,
                                          chainId |-> SendIpChainId]>>,
                       !.pc = "sign"]]
        /\ UNCHANGED <<registries, sequential, calls, tools, story, chain>>

\* send_ip: self.account.sign_transaction(transaction).
SignTransaction(t, ok) ==
    LET f == frames[t]
    IN  /\ f.pc = "sign"
        /\ frames' = [frames EXCEPT ![t] =
              IF ok THEN [Did(f, "sign_transaction", FALSE) EXCEPT !.pc = "send"]
              ELSE Finished(Did(f, "sign_transaction", TRUE),
                            Raises("TypeError", "sign_transaction"))]
        /\ chain' = IF ok
                    THEN [chain EXCEPT !.signed =
                             Append(@, [thread |-> t, tx |-> f.transaction[1]])]
                    ELSE chain
        /\ UNCHANGED <<registries, sequential, calls, tools, story>>

\* send_ip: send_raw_transaction; the node takes one transaction per nonce.
SendRawTransaction(t, ok) ==
    LET f == frames[t]
        tx == f.transaction[1]
        taken == \/ tx.nonce < chain.count
                 \/ \E p \in chain.pool : p.nonce = tx.nonce
        g == Did(f, "send_raw_transaction", ~ok \/ taken)
    IN  /\ f.pc = "send"
        /\ frames' = [frames EXCEPT ![t] =
              IF ~ok THEN Finished(g, Raises("ConnectionError", "eth_sendRawTransaction"))
              ELSE IF taken THEN Finished(g, Raises("Web3RPCError", "nonce too low"))
              ELSE [g EXCEPT !.pc = "wait"]]
        /\ chain' = IF ok /\ ~taken
                    THEN [chain EXCEPT !.pool = @ \cup {[thread |-> t, nonce |-> tx.nonce]}]
                    ELSE chain
        /\ UNCHANGED <<registries, sequential, calls, tools, story>>

\* The chain includes the pending transaction whose nonce is next.
Mine ==
    /\ \E p \in chain.pool : p.nonce = chain.count
    /\ chain' = [chain EXCEPT !.pool = {p \in @ : p.nonce # chain.count},
                              !.count = @ + 1]
    /\ UNCHANGED <<registries, sequential, calls, tools, story, frames>>

\* send_ip: wait_for_transaction_receipt answers, or times out.
ReceiptReturns(t, ok) ==
    LET f == frames[t]
    IN  /\ f.pc = "wait"
        /\ ok => f.transaction[1].nonce < chain.count
        /\ frames' = [frames EXCEPT ![t] =
              Finished(Did(f, "wait_for_transaction_receipt", ~ok),
                       IF ok THEN Returns("txHash")
                       ELSE Raises("TimeExhausted", "wait_for_transaction_receipt"))]
        /\ UNCHANGED <<registries, sequential, calls, tools, story, chain>>

\* The HTTP requests an IPFS method makes, in order.
IpfsRequests(m, data) ==
    IF m = "create_ip_metadata"
    THEN <<"POST https://api.pinata.cloud/pinning/pinJSONToIPFS",
           "POST https://api.pinata.cloud/pinning/pinJSONToIPFS">>
    ELSE (IF StartsWith(data, "http") THEN <<"GET " \o data>> ELSE <<>>)
         \o <<"POST https://api.pinata.cloud/pinning/pinFileToIPFS">>

\* As an IPFS method, without the ipfs_enabled guard.
IpfsCallUnguarded(t, m, data) ==
    /\ story.module = SdkService
    /\ Begins(t, [Enter(m, data, None, 0, IpfsRequests(m, data)) EXCEPT !.pc = "http"])
    /\ UNCHANGED <<registries, sequential, calls, tools, story, chain>>

\* upload_image_to_ipfs(image_data) and create_ip_metadata(image_uri, ...),
\* up to the first request: lines 230-233 and 273-276 raise when IPFS is off.
IpfsCall(t, m, data) ==
    /\ story.module = SdkService
    /\ Begins(t, IF ~ipfs_enabled
                 THEN [Enter(m, data, None, 0, <<>>) EXCEPT
                          !.pc = "done",
                          !.result = Raises("Exception",
                              "IPFS functions are disabled. Please provide PINATA_JWT environment variable.")]
                 ELSE [Enter(m, data, None, 0, IpfsRequests(m, data)) EXCEPT
                          !.pc = "http"])
    /\ UNCHANGED <<registries, sequential, calls, tools, story, chain>>

\* A request of an IPFS method answers: status 200, or anything else.
HttpReturns(t, ok) ==
    LET f == frames[t]
        g == [Did(f, Head(f.pending), ~ok) EXCEPT !.pending = Tail(@)]
    IN  /\ f.pc = "http"
        /\ frames' = [frames EXCEPT ![t] =
              IF ~ok THEN Finished(g, Raises("Exception", "Failed to upload"))
              ELSE IF g.pending = <<>> THEN Finished(g, Returns("ipfs://hash"))
              ELSE g]
        /\ UNCHANGED <<registries, sequential, calls, tools, story, chain>>

\* The caller takes the result; the call's frame is gone.
ServiceReturn(t) ==
    /\ frames[t].pc = "done"
    /\ frames' = [frames EXCEPT ![t] = IdleCall]
    /\ UNCHANGED <<registries, sequential, calls, tools, story, chain>>

\* What the images and image URIs of the IPFS methods may be.
ImageData == {"<bytes>", "https://example.org/image.png"}

\* One caller at a time uses the service, of either module.
ServiceNext ==
    \/ \E module \in {SdkService, LegacyService} : \E connected \in BOOLEAN :
       \E rpc_chain_id \in RpcChainIds : \E network \in Networks :
       \E pinata_jwt \in PinataJwts :
           StoryServiceInit(module, connected, rpc_chain_id, network, pinata_jwt)
    \/ \E to_address \in ToAddresses : \E amount \in Amounts :
           SendIp("t1", to_address, amount)
    \/ \E receiver \in Recipients : MintLicenseTokens("t1", receiver)
    \/ \E recipient \in Recipients : MintAndRegisterIpWithTerms("t1", recipient)
    \/ \E mint_fee_recipient \in Recipients : \E owner \in Recipients :
           CreateSpgNftCollection("t1", mint_fee_recipient, owner)
    \/ \E outcome \in {Returns(AddrA), ResolutionFailure(""),
                       ResolutionFailure("alice.ip")} :
           ResolverReturns("t1", outcome)
    \/ \E ok \in BOOLEAN : SdkReturns("t1", ok)
    \/ \E ok \in BOOLEAN : Prepare("t1", ok)
    \/ \E answer \in GasPriceAnswers : GasPriceReturns("t1", answer)
    \/ \E answer \in GasEstimateAnswers : EstimateGasReturns("t1", answer)
    \/ \E ok \in BOOLEAN : BuildTransaction("t1", ok)
    \/ \E ok \in BOOLEAN : SignTransaction("t1", ok)
    \/ \E ok \in BOOLEAN : SendRawTransaction("t1", ok)
    \/ Mine
    \/ \E ok \in BOOLEAN : ReceiptReturns("t1", ok)
    \/ \E data \in ImageData : IpfsCall("t1", "upload_image_to_ipfs", data)
    \/ IpfsCall("t1", "create_ip_metadata", "ipfs://hash")
    \/ \E ok \in BOOLEAN : HttpReturns("t1", ok)
    \/ ServiceReturn("t1")

ServiceSpec == Init /\ [][ServiceNext]_vars

\* Two threads call send_ip on one service at the same time.
SendNext ==
    \/ \E module \in {SdkService, LegacyService} :
           StoryServiceInit(module, TRUE, CHAIN_IDS["aeneid"], None, None)
    \/ \E t \in Threads : SendIp(t, AddrALower, 1)
    \/ \E t \in Threads : ResolverReturns(t, Returns(AddrA))
    \/ \E t \in Threads : Prepare(t, TRUE)
    \/ \E t \in Threads : \E answer \in GasPriceAnswers : GasPriceReturns(t, answer)
    \/ \E t \in Threads : EstimateGasReturns(t, Returns(53000))
    \/ \E t \in Threads : BuildTransaction(t, TRUE)
    \/ \E t \in Threads : SignTransaction(t, TRUE)
    \/ \E t \in Threads : \E ok \in BOOLEAN : SendRawTransaction(t, ok)
    \/ Mine
    \/ \E t \in Threads : \E ok \in BOOLEAN : ReceiptReturns(t, ok)
    \/ \E t \in Threads : ServiceReturn(t)

SendSpec == Init /\ [][SendNext]_vars

(***************************************************************************)
(* Properties.                                                             *)
(***************************************************************************)
Resolving == method = "resolve_address"
Resolved == pc = "done" /\ method = "resolve_address"
Reversed == pc = "done" /\ method = "get_domain_for_address"

Issued(lookup) == \E i \in DOMAIN requests : requests[i].lookup = lookup
IssuedFor(lookup, arg) == \E i \in DOMAIN requests : requests[i] = Request(lookup, arg)

Contains(s, part) ==
    \E i \in 1..(Len(s) - Len(part) + 1) : SubSeq(s, i, i + Len(part) - 1) = part

\* A valid literal address: "0x", 42 characters, accepted by the validator.
ValidLiteral(id) == StartsWith(id, "0x") /\ Len(id) = AddressLength /\ IsAddress(id)
\* The shape of an address alone.
AddressShaped(id) == StartsWith(id, "0x") /\ Len(id) = AddressLength
\* The primary suffix, case-insensitively.
HasPrimarySuffix(id) == EndsWith(Lower(id), ".eth")

\* The primary forward lookup of id answers a non-empty address.
PrimaryHas(id) == EnsAddressOf(id) \notin {None, "", Raise}
\* The secondary forward lookup of id answers status 200, code 0 and a
\* non-empty address.
SecondaryHas(id) ==
    LET r == GetAddressOf(id)
    IN  /\ ~r.raises /\ r.status = 200 /\ r.parses
        /\ "code" \in DOMAIN r.data /\ r.data["code"] = 0
        /\ "address" \in DOMAIN r.data /\ r.data["address"] \notin {None, ""}

\* The call ended in the "could not resolve" ValueError naming id.
IsResolutionFailure(r, id) ==
    /\ r.kind = "raise"
    /\ r.exc = "ValueError"
    /\ StartsWith(r.msg, "Could not resolve")
    /\ Contains(r.msg, id)

\* C1: resolve of a valid literal address returns its canonical form and
\* sends no request to either backend, whatever the registries hold.
C1_LiteralReturnsCanonicalWithoutRequests ==
    (Resolving /\ ValidLiteral(argument)) =>
        /\ pc = "done"
        /\ result = Returns(Checksum(argument))
        /\ requests = <<>>

C1_Witness ==
    /\ Resolved
    /\ argument = AddrALower
    /\ result = Returns(AddrA)
    /\ get_address[AddrALower] = Response(200, [code |-> 0, address |-> Malformed])

\* C2: when the identifier ends in the primary suffix and the primary
\* forward lookup answers a non-empty address, resolve returns that address
\* in canonical form and never asks the secondary backend.
C2_PrimaryHitSkipsSecondary ==
    (Resolving /\ HasPrimarySuffix(argument) /\ PrimaryHas(argument)) =>
        /\ ~Issued("getAddress")
        /\ pc = "done" => result = Returns(Checksum(EnsAddressOf(argument)))

C2_Witness ==
    /\ Resolved
    /\ argument = "alice.eth"
    /\ ens_address["alice.eth"] = AddrB
    /\ get_address["alice.eth"] = Response(200, [code |-> 0, address |-> AddrALower])
    /\ result = Returns(AddrB)

\* C3: when the identifier ends in the primary suffix and the primary
\* forward lookup answers nothing or raises, resolve does not end there: it
\* has asked the secondary forward lookup for the same raw identifier, after
\* the primary one, by the time it returns or fails.
C3_PrimaryMissFallsThrough ==
    (Resolved /\ HasPrimarySuffix(argument) /\ ~ValidLiteral(argument)
              /\ ~PrimaryHas(argument)) =>
        /\ requests = <<Request("ens.address", argument),
                        Request("getAddress", argument)>>
        /\ \/ IsResolutionFailure(result, argument)
           \/ SecondaryHas(argument)

C3_Witness ==
    /\ Resolved
    /\ argument = "alice.eth"
    /\ ens_address["alice.eth"] = Raise
    /\ IssuedFor("getAddress", "alice.eth")
    /\ result = Returns(AddrA)

\* C4: when the identifier is no valid literal and neither backend yields a
\* non-empty address, resolve raises the "could not resolve" ValueError whose
\* message holds the identifier verbatim; it returns nothing.
C4_NoMatchRaisesResolutionFailure ==
    (Resolved /\ ~ValidLiteral(argument)
              /\ ~(HasPrimarySuffix(argument) /\ PrimaryHas(argument))
              /\ ~SecondaryHas(argument)) =>
        /\ result.kind # "return"
        /\ IsResolutionFailure(result, argument)

C4_Witness ==
    /\ Resolved
    /\ argument = "not-a-real-domain"
    /\ result = Raises("ValueError",
                       "Could not resolve address or domain: not-a-real-domain")

\* C5 (as claimed): a fault of a backend, a success response whose address
\* is no well-formed address included, never reaches the caller: resolve
\* either returns an address or raises the resolution failure that carries
\* the identifier.
C5_OnlyResolutionFailureIsRaised ==
    Resolved => \/ result.kind = "return"
                \/ IsResolutionFailure(result, argument)

\* C6 (as claimed): for an identifier with the shape of an address that the
\* validator rejects, the secondary forward lookup is asked for it, and the
\* outcome is the resolution failure when no backend matches.
C6_MalformedLiteralAlwaysAsksSecondary ==
    (Resolved /\ AddressShaped(argument) /\ ~IsAddress(argument)) =>
        /\ IssuedFor("getAddress", argument)
        /\ (~(HasPrimarySuffix(argument) /\ PrimaryHas(argument))
            /\ ~SecondaryHas(argument)) => IsResolutionFailure(result, argument)

\* C6 (amended): for an identifier with the shape of an address that the
\* validator rejects, resolve does not return at the literal step but goes
\* on to domain resolution: the secondary forward lookup is asked for it
\* unless it ends in the primary suffix and the primary lookup answered a
\* non-empty address; the outcome is the resolution failure when no backend
\* matches.
C6_MalformedLiteralGoesToDomainResolution ==
    (Resolved /\ AddressShaped(argument) /\ ~IsAddress(argument)) =>
        /\ requests # <<>>
        /\ \A i \in DOMAIN requests : requests[i].arg = argument
        /\ \/ IssuedFor("getAddress", argument)
           \/ HasPrimarySuffix(argument) /\ PrimaryHas(argument)
        /\ (~(HasPrimarySuffix(argument) /\ PrimaryHas(argument))
            /\ ~SecondaryHas(argument)) => IsResolutionFailure(result, argument)

C6_Witness ==
    /\ Resolved
    /\ argument = AddrABad
    /\ requests = <<Request("getAddress", AddrABad)>>
    /\ IsResolutionFailure(result, AddrABad)

\* What resolving a name forwards to, under the registries as they are: the
\* primary record of a name with the primary suffix, else the secondary's.
ForwardOf(n) ==
    IF HasPrimarySuffix(n) /\ PrimaryHas(n) THEN EnsAddressOf(n)
    ELSE IF SecondaryHas(n) /\ IsHexAddress(GetAddressOf(n).data["address"])
         THEN Checksum(GetAddressOf(n).data["address"])
         ELSE None

\* C7 (as claimed): a name whose forward lookup is not the canonical form of
\* the address is never returned by the reverse lookup of that address,
\* whichever backend reported it.
C7_NoUnverifiedNameFromAnyBackend ==
    (Reversed /\ result.value \notin {None, ""}) =>
        ForwardOf(result.value) = Checksum(argument)

\* C7 (amended): a name the primary backend reported as the reverse record
\* is returned only if the primary forward lookup of that name equals the
\* canonical form of the address; a name the secondary backend reports is
\* returned without a forward lookup.
C7_PrimaryNameIsVerified ==
    /\ (Reversed /\ result.value \notin {None, ""} /\ ~Issued("getName")) =>
           /\ result.value = EnsNameOf(Checksum(argument))
           /\ EnsAddressOf(result.value) = Checksum(argument)
    /\ (Reversed /\ Issued("getName")) =>
           result = Returns(DomainOfResponse(GetNameOf(Checksum(argument))))

C7_Witness ==
    /\ Reversed
    /\ argument = AddrALower
    /\ ens_name[AddrA] = "alice.eth"
    /\ ens_address["alice.eth"] = AddrB
    /\ requests = <<Request("ens.name", AddrA), Request("ens.address", "alice.eth"),
                    Request("getName", AddrA)>>
    /\ result = Returns(None)

\* C8: resolve asks the primary forward lookup if and only if the
\* identifier is no valid literal address and ends, case-insensitively, in
\* the primary suffix.
C8_PrimaryAskedIffSuffix ==
    Resolving =>
        (Issued("ens.address") <=>
            (~ValidLiteral(argument) /\ HasPrimarySuffix(argument)))

C8_Witness ==
    /\ Resolved
    /\ argument = "ALICE.ETH"
    /\ IssuedFor("ens.address", "ALICE.ETH")

\* C9: one resolve call sends at most one forward lookup to each backend,
\* the secondary one only after the primary one has answered, and repeats
\* no request.
C9_AtMostOneSequentialRequestPerBackend ==
    Resolving =>
        /\ Cardinality({i \in DOMAIN requests : requests[i].lookup = "ens.address"}) <= 1
        /\ Cardinality({i \in DOMAIN requests : requests[i].lookup = "getAddress"}) <= 1
        /\ \A i \in DOMAIN requests :
              /\ requests[i].lookup \in {"ens.address", "getAddress"}
              /\ requests[i].arg = argument
              /\ requests[i].lookup = "ens.address" => i = 1
        /\ pc \in {"ens.address", "getAddress"} => requests[Len(requests)].lookup = pc
        /\ pc = "ens.address" => ~Issued("getAddress")

C9_Witness ==
    /\ Resolved
    /\ requests = <<Request("ens.address", "alice.eth"),
                    Request("getAddress", "alice.eth")>>

\* C10: resolve takes the secondary backend's answer if and only if the
\* status is 200, the code is 0 and the address is non-empty; it then
\* returns the address in canonical form when it is well-formed; every other
\* answer counts as not found and ends in the resolution failure.
C10_SecondaryAcceptedIffSuccess ==
    (Resolved /\ Issued("getAddress")) =>
        /\ Truthy(space_id_address) <=> SecondaryHas(argument)
        /\ ~SecondaryHas(argument) => IsResolutionFailure(result, argument)
        /\ SecondaryHas(argument) =>
              /\ space_id_address = GetAddressOf(argument).data["address"]
              /\ ~IsResolutionFailure(result, argument)
              /\ IsHexAddress(space_id_address) =>
                    result = Returns(Checksum(space_id_address))

C10_Witness ==
    /\ Resolved
    /\ argument = "alice.ip"
    /\ get_address["alice.ip"] = Response(200, [code |-> 0, address |-> AddrALower])
    /\ result = Returns(AddrA)

(***************************************************************************)
(* Canonical results and the reverse lookup.                               *)
(***************************************************************************)
\* v is an address in canonical (checksum) form.
IsCanonical(v) == IsHexAddress(v) /\ StartsWith(v, "0x") /\ v = Checksum(v)

\* The lookup of the last request the call issued.
LastLookup == IF requests = <<>> THEN None ELSE requests[Len(requests)].lookup

\* C11: every value resolve returns is in canonical checksum form, on each
\* of its three success paths: the literal, the primary backend's answer
\* and the secondary backend's answer; a backend's raw string that is not
\* canonical is never returned as it came.
C11_ReturnedValueIsCanonical ==
    (Resolved /\ result.kind = "return") =>
        /\ IsCanonical(result.value)
        /\ LastLookup = None => result.value = Checksum(argument)
        /\ LastLookup = "ens.address" =>
              result.value = Checksum(EnsAddressOf(argument))
        /\ LastLookup = "getAddress" =>
              /\ result.value = Checksum(GetAddressOf(argument).data["address"])
              /\ ~IsCanonical(GetAddressOf(argument).data["address"]) =>
                    result.value # GetAddressOf(argument).data["address"]

C11_Witness ==
    /\ Resolved
    /\ LastLookup = "getAddress"
    /\ space_id_address = AddrALower
    /\ ~IsCanonical(space_id_address)
    /\ result = Returns(AddrA)

\* The name the primary backend holds for addr and whose forward record is
\* addr again, or None.
PrimaryVerifiedName(addr) ==
    LET n == EnsNameOf(addr)
    IN  IF n \notin {None, "", Raise} /\ EnsAddressOf(n) = addr THEN n ELSE None

\* The secondary reverse lookup of addr answers status 200 and code 0.
SecondaryNameSuccess(addr) ==
    LET r == GetNameOf(addr)
    IN  /\ ~r.raises /\ r.status = 200 /\ r.parses
        /\ "code" \in DOMAIN r.data /\ r.data["code"] = 0

\* The name in the secondary reverse answer for addr, None when absent.
SecondaryName(addr) ==
    LET r == GetNameOf(addr)
    IN  IF "name" \in DOMAIN r.data THEN r.data["name"] ELSE None

\* C12: the reverse lookup asks the secondary backend only when the primary
\* backend produced no verified name, and with the canonical address; it
\* returns the secondary's name only when the status is 200, the code is 0
\* and the name is non-empty; in every other case the result is "no domain
\* found" (None), never an empty name.
C12_SecondaryReverseOnlyNonEmptyName ==
    (method = "get_domain_for_address" /\ Issued("getName")) =>
        /\ PrimaryVerifiedName(Checksum(argument)) = None
        /\ \A i \in DOMAIN requests :
              requests[i].lookup = "getName" => requests[i].arg = Checksum(argument)
        /\ pc = "done" =>
              IF /\ SecondaryNameSuccess(Checksum(argument))
                 /\ SecondaryName(Checksum(argument)) \notin {None, ""}
              THEN result = Returns(SecondaryName(Checksum(argument)))
              ELSE result = Returns(None)

C14_InvalidInputDistinguishable ==
    (Reversed /\ ~IsHexAddress(argument)) => result # Returns(None)

CallStep == pc # "idle" \/ pc' # "idle"

\* C17: resolve and reverseResolve only read: no step of a call changes a
\* record of either registry or a field of the resolver (web3, chain_id,
\* the API URL, the ENS handle).
C17_CallsAreReadOnly ==
    [][CallStep => UNCHANGED <<registries, self>>]_vars

C17_Witness ==
    /\ pc = "done"
    /\ Len(requests) >= 2
    /\ Records = MaxRecords
    /\ self.chain_id = DefaultChainId
    /\ self.space_id_api_url = "https://nameapi.space.id"

\* A call of resolve_address waiting for a backend's answer.
Blocked == Resolving /\ pc \in {"ens.address", "getAddress"}

\* C18: a call of resolve eventually completes, provided every backend
\* request it issues eventually returns or raises; the resolver has no
\* timeout and no cancellation of its own: a call waiting for a backend
\* moves on by that backend's answer and by nothing else, so a request that
\* never returns leaves it blocked forever.
C18_ResolveCompletesWhenBackendsAnswer ==
    /\ Resolving ~> Resolved
    /\ [][Blocked => (EnsAddressReturns \/ GetAddressReturns)]_vars

C18_Witness ==
    /\ Resolved
    /\ requests = <<Request("ens.address", "ALICE.ETH"),
                    Request("getAddress", "ALICE.ETH")>>
    /\ IsResolutionFailure(result, "ALICE.ETH")

\* The frame a call ends in when no other call runs beside it.
RECURSIVE Run(_)
Run(f) ==
    IF f.pc = "done" THEN f
    ELSE IF f.pc = "ens.address" /\ f.method = "resolve_address" THEN Run(AfterEnsAddress(f))
    ELSE IF f.pc = "getAddress" THEN Run(AfterGetAddress(f))
    ELSE IF f.pc = "ens.name" THEN Run(AfterEnsName(f))
    ELSE IF f.pc = "ens.address" THEN Run(AfterEnsVerify(f))
    ELSE Run(AfterGetName(f))

\* The outcome of method(arg) run alone against the registries as they are.
Alone(m, arg) ==
    IF m = "resolve_address" THEN Run(EnterResolveAddress(arg)).result
    ELSE Run(EnterGetDomainForAddress(arg)).result

\* C16: resolve and reverseResolve share no mutable state: under every
\* interleaving of concurrent calls on one resolver, against fixed
\* registries, each call ends in the outcome it would end in if run alone.
C16_ConcurrentCallsAsAlone ==
    \A t \in Threads :
        calls[t].pc = "done" =>
            calls[t].result = Alone(calls[t].method, calls[t].asked)

C16_Witness ==
    /\ calls["t1"].pc = "done"
    /\ calls["t1"].asked = "alice.eth"
    /\ calls["t1"].result = Returns(AddrA)
    /\ calls["t2"].pc = "getAddress"
    /\ calls["t2"].asked = "alice.ip"
    /\ get_address["alice.ip"] = Response(200, [code |-> 0, address |-> Malformed])

\* The output is an error message of tool t.
IsErrorString(t, out) ==
    /\ out.kind = "return"
    /\ \/ StartsWith(out.value, t.error)
       \/ t.tool = "mint_license_tokens" /\ StartsWith(out.value, "Validation error: ")

\* The service's answer lacks a key the tool's message reads.
LacksKey(t, answer) ==
    /\ answer.kind = "return"
    /\ Len(answer.value) > 0
    /\ \E i \in DOMAIN t.needs : t.needs[i] \notin DOMAIN answer.value[1]

\* C19: every registered tool endpoint, of the story-sdk servers and of the
\* storyscan server, returns a string for every input and lets no exception
\* escape: an exception of the service call, or of the formatting of its
\* answer, is turned into the tool's error string.
C19_ToolsReturnStrings ==
    tool_pc = "done" =>
        /\ output.kind = "return"
        /\ output.value \in STRING
        /\ service_answer.kind = "raise" =>
              /\ IsErrorString(tool, output)
              /\ EndsWith(output.value, service_answer.msg)
        /\ LacksKey(tool, service_answer) => IsErrorString(tool, output)

C19_Witness ==
    /\ tool_pc = "done"
    /\ tool.server = "src/storyscan-mcp/server.py"
    /\ tool.tool = "get_stats"
    /\ LacksKey(tool, service_answer)
    /\ output = Returns("Error getting blockchain stats: 'gas_prices'")

\* share lies in 0..100, bounds included.
InRange(share) == share \in MinRevShare..MaxRevShare

\* C20: the tool mint_and_register_ip_with_terms rejects a
\* commercial_rev_share outside 0..100 inclusive: it returns an error string
\* and the service is never called; inside the range the service is called
\* exactly once.
C20_RevShareValidatedBeforeService ==
    (tool_pc \in {"service", "done"} /\ tool.tool = "mint_and_register_ip_with_terms") =>
        /\ ~InRange(arguments.commercial_rev_share) =>
              /\ tool_pc = "done"
              /\ service_calls = <<>>
              /\ service_answer = NoResult
              /\ output = Returns("Error minting and registering IP with terms: "
                                  \o "commercial_rev_share must be between 0 and 100")
        /\ InRange(arguments.commercial_rev_share) =>
              service_calls = <<"mint_and_register_ip_with_terms">>

C20_Witness ==
    /\ tool_pc = "done"
    /\ tool.tool = "mint_and_register_ip_with_terms"
    /\ arguments.commercial_rev_share = MaxRevShare
    /\ service_calls = <<"mint_and_register_ip_with_terms">>
    /\ service_answer.kind = "return"
    /\ StartsWith(output.value, "Successfully minted and registered IP asset")

C20_WitnessRejected ==
    /\ tool_pc = "done"
    /\ tool.tool = "mint_and_register_ip_with_terms"
    /\ arguments.commercial_rev_share = MaxRevShare + 1
    /\ service_calls = <<>>

(***************************************************************************)
(* C21: get_domain_for_address and exceptions.                             *)
(***************************************************************************)
\* The format validator raised on the call's argument.
ValidatorRaised == ToChecksumAddress(argument).kind = "raise"

\* The primary backend raised in the call: on ens.name, or on the forward
\* lookup that verifies the name.
PrimaryRaised ==
    \/ Issued("ens.name") /\ EnsNameOf(address) = Raise
    \/ Issued("ens.address") /\ EnsAddressOf(name) = Raise

\* The secondary backend raised in the call, or its body was not JSON.
SecondaryRaised ==
    /\ Issued("getName")
    /\ \/ GetNameOf(address).raises
       \/ GetNameOf(address).status = 200 /\ ~GetNameOf(address).parses

\* C21 as stated: the reverse lookup never raises, and any exception from
\* the format validator, from either backend or from parsing the secondary
\* backend's response makes its result None.
C21_AnyExceptionGivesNone ==
    Reversed =>
        /\ result.kind = "return"
        /\ (ValidatorRaised \/ PrimaryRaised \/ SecondaryRaised) =>
              result = Returns(None)

\* C21: the reverse lookup never raises; an exception from the format
\* validator, from the secondary backend or from parsing its response makes
\* the result None; an exception from the primary backend counts as "no
\* primary name", so the secondary backend is asked and its answer decides
\* the result.
C21_ReverseLookupNeverRaises ==
    Reversed =>
        /\ result.kind = "return"
        /\ result.value # Raise
        /\ (ValidatorRaised \/ SecondaryRaised) => result = Returns(None)
        /\ PrimaryRaised =>
              /\ Issued("getName")
              /\ result = IF /\ SecondaryNameSuccess(address)
                             /\ SecondaryName(address) # None
                          THEN Returns(SecondaryName(address))
                          ELSE Returns(None)

C21_Witness ==
    /\ Reversed
    /\ SecondaryRaised
    /\ GetNameOf(address).raises
    /\ result = Returns(None)

C21_WitnessPrimary ==
    /\ Reversed
    /\ PrimaryRaised
    /\ result = Returns("alice.ip")

(***************************************************************************)
(* C22..C28: the StoryService methods.                                     *)
(***************************************************************************)
\* The methods of the SDK service that take a recipient or an owner.
ResolvingMethods ==
    {"mint_license_tokens", "send_ip", "mint_and_register_ip_with_terms",
     "create_spg_nft_collection"}

\* A call of one of them is in thread t's frame.
ResolvingCall(f) == story.module = SdkService /\ f.method \in ResolvingMethods

\* The identifiers the caller supplied: the non-empty strings.
SuppliedIdentifiers(f) == {v \in {f.to, f.owner} : Truthy(v)}

\* The calls f has made.
Ops(f) == {f.did[i].op : i \in DOMAIN f.did}

\* A resolution of the call failed.
ResolutionFailed(f) ==
    \E i \in DOMAIN f.resolved : f.resolved[i].outcome.kind = "raise"

MintingMethods == {"mint_license_tokens", "mint_and_register_ip_with_terms"}

\* The call in f has reached its SDK call: what it passed is in kwargs.
Passed(f) == f.kwargs # <<>>

\* C23 as stated, "omitted" being the default None: an omitted receiver or
\* recipient gives the account's own address and no resolver call, a
\* supplied one the resolver's result for it; an omitted mint_fee_recipient
\* gives the zero address.
C23_SuppliedRecipientIsResolved ==
    \A t \in Threads :
        LET f == frames[t]
        IN  (story.module = SdkService /\ Passed(f)) =>
              /\ f.method \in MintingMethods =>
                    IF f.to = None
                    THEN /\ f.kwargs[1].recipient = AccountAddress
                         /\ f.resolved = <<>>
                    ELSE /\ Len(f.resolved) = 1
                         /\ f.resolved[1].id = f.to
                         /\ f.kwargs[1].recipient = f.resolved[1].outcome.value
              /\ (f.method = "create_spg_nft_collection" /\ f.to = None) =>
                    f.kwargs[1].recipient = ZeroAddress

\* C23: a receiver or recipient that is None or the empty string gives the
\* account's own address and no resolver call; a non-empty one gives the
\* resolver's result for it; create_spg_nft_collection passes the zero
\* address when mint_fee_recipient is None, and the resolver's result for
\* any other value, the empty string included.
C23_RecipientPassedToSdk ==
    \A t \in Threads :
        LET f == frames[t]
        IN  (story.module = SdkService /\ Passed(f)) =>
              /\ f.method \in MintingMethods =>
                    IF ~Truthy(f.to)
                    THEN /\ f.kwargs[1].recipient = AccountAddress
                         /\ f.resolved = <<>>
                    ELSE /\ Len(f.resolved) = 1
                         /\ f.resolved[1].id = f.to
                         /\ f.kwargs[1].recipient = f.resolved[1].outcome.value
              /\ f.method = "create_spg_nft_collection" =>
                    IF f.to = None
                    THEN /\ f.kwargs[1].recipient = ZeroAddress
                         /\ \A i \in DOMAIN f.resolved : f.resolved[i].id = f.owner
                    ELSE /\ f.resolved[1].id = f.to
                         /\ f.kwargs[1].recipient = f.resolved[1].outcome.value

C23_Witness ==
    LET f == frames["t1"]
    IN  /\ f.method = "mint_license_tokens"
        /\ f.pc = "done"
        /\ f.to = "alice.ip"
        /\ f.resolved = <<[id |-> "alice.ip", outcome |-> Returns(AddrA)]>>
        /\ f.kwargs[1].recipient = AddrA
        /\ f.result.kind = "return"

C23_WitnessOmitted ==
    LET f == frames["t1"]
    IN  /\ f.method = "mint_and_register_ip_with_terms"
        /\ f.to = None
        /\ Passed(f)
        /\ f.kwargs[1].recipient = AccountAddress

\* A send_ip call, of either module, is in f.
Sending(f) == f.method = "send_ip"

\* The call op of f raised.
RaisedIn(f, op) == \E i \in DOMAIN f.did : f.did[i] = [op |-> op, raised |-> TRUE]

\* The call op of f answered.
AnsweredIn(f, op) == \E i \in DOMAIN f.did : f.did[i] = [op |-> op, raised |-> FALSE]

\* The last call f made.
LastOp(f) == IF f.did = <<>> THEN None ELSE f.did[Len(f.did)].op

\* C24: in send_ip a gas price read that raises leaves gas_price at 50 gwei
\* and an estimate that raises leaves gas_estimate at 21000; neither ends the
\* call: it goes on to build the transaction with these values, and a call
\* that returns has signed and sent it.
C24_GasFallbacksNeverAbort ==
    \A t \in Threads :
        LET f == frames[t]
        IN  Sending(f) =>
              /\ RaisedIn(f, "eth_gasPrice") =>
                    /\ f.gas_price = Wei(FallbackGasPriceGwei, 9)
                    /\ LastOp(f) = "eth_gasPrice" => f.pc = "estimate_gas"
              /\ RaisedIn(f, "eth_estimateGas") =>
                    /\ f.gas_estimate = FallbackGasLimit
                    /\ LastOp(f) = "eth_estimateGas" => f.pc = "build"
              /\ f.pc = "done" => LastOp(f) \notin {"eth_gasPrice", "eth_estimateGas"}
              /\ f.transaction # <<>> =>
                    /\ f.transaction[1].gasPrice = f.gas_price
                    /\ f.transaction[1].gas = f.gas_estimate
              /\ f.result.kind = "return" =>
                    /\ AnsweredIn(f, "sign_transaction")
                    /\ AnsweredIn(f, "send_raw_transaction")

C24_Witness ==
    LET f == frames["t1"]
    IN  /\ Sending(f)
        /\ RaisedIn(f, "eth_gasPrice")
        /\ RaisedIn(f, "eth_estimateGas")
        /\ f.pc = "done"
        /\ f.result = Returns("txHash")
        /\ f.transaction[1].gasPrice = Wei(FallbackGasPriceGwei, 9)
        /\ f.transaction[1].gas = FallbackGasLimit
        /\ \E i \in DOMAIN chain.signed : chain.signed[i].tx = f.transaction[1]

\* C25: the transaction send_ip builds and signs carries the chain ID the
\* service was initialised for, self.chain_id, on Aeneid and on Mainnet.
C25_SignedChainIdIsServiceChainId ==
    /\ \A t \in Threads :
          LET f == frames[t]
          IN  (story.module = SdkService /\ Sending(f) /\ f.transaction # <<>>) =>
                  f.transaction[1].chainId = story.chain_id
    /\ story.module = SdkService =>
          \A i \in DOMAIN chain.signed : chain.signed[i].tx.chainId = story.chain_id

\* A service initialised for Mainnet has signed a transaction for Aeneid.
C25_MainnetSignsAeneid ==
    /\ story.module = SdkService
    /\ story.network = "mainnet"
    /\ story.chain_id = CHAIN_IDS["mainnet"]
    /\ chain.signed # <<>>
    /\ chain.signed[1].tx.chainId = CHAIN_IDS["aeneid"]

\* What the steps of send_ip raise by themselves.
OriginalFailures(f) ==
    {ToWei(f.amount, "ether"), ToChecksumAddress(f.to),
     ResolutionFailure(f.to),
     Raises("ConnectionError", "eth_getBalance"),
     Raises("ConnectionError", "eth_getTransactionCount"),
     Raises("TypeError", "sign_transaction"),
     Raises("ConnectionError", "eth_sendRawTransaction"),
     Raises("Web3RPCError", "nonce too low"),
     Raises("TimeExhausted", "wait_for_transaction_receipt")}

\* C26: when send_ip fails at any step, the exception that reaches the
\* caller is the failure of that step, re-raised unchanged; the handler
\* raises no exception of its own.
C26_SendIpReraisesOriginal ==
    \A t \in Threads :
        LET f == frames[t]
        IN  (Sending(f) /\ f.pc = "done" /\ f.result.kind = "raise") =>
                /\ f.result \in OriginalFailures(f)
                /\ f.result.exc # "UnboundLocalError"

\* The legacy send_ip failed before its transaction was built, and the
\* caller got the handler's own UnboundLocalError.
C26_HandlerRaisedItsOwn ==
    LET f == frames["t1"]
    IN  /\ story.module = LegacyService
        /\ Sending(f) /\ f.pc = "done"
        /\ f.amount = -1
        /\ f.did = <<[op |-> "to_wei", raised |-> TRUE]>>
        /\ f.result.exc = "UnboundLocalError"

\* In the SDK service a failed send_ip hands on the failure of its step.
C26_SdkServiceReraises ==
    \A t \in Threads :
        LET f == frames[t]
        IN  (story.module = SdkService /\ Sending(f) /\ f.pc = "done"
             /\ f.result.kind = "raise") =>
                f.result \in OriginalFailures(f)

\* The send_ip call in f has read the account's transaction count and has
\* not ended: its transaction is built, and signed once it is past "sign".
HoldsNonce(f) == Sending(f) /\ f.pc \in {"sign", "send", "wait"}
HasSigned(f) == Sending(f) /\ f.pc \in {"send", "wait"}

\* C27: two send_ip calls in progress at the same time never hold
\* transactions with the same nonce: neither both signed, nor one signed or
\* sent while the other has read the same transaction count.
C27_OverlappingCallsDistinctNonces ==
    \A t, u \in Threads :
        (t # u /\ HoldsNonce(frames[t]) /\ HoldsNonce(frames[u])) =>
            frames[t].transaction[1].nonce # frames[u].transaction[1].nonce

\* Two overlapping calls have both signed a transaction with nonce 0.
C27_BothSignedSameNonce ==
    /\ HasSigned(frames["t1"]) /\ HasSigned(frames["t2"])
    /\ frames["t1"].transaction[1].nonce = 0
    /\ frames["t2"].transaction[1].nonce = 0
    /\ Len(chain.signed) = 2

\* The IPFS tools of the SDK server, and the service methods behind them.
IpfsMethods == {"upload_image_to_ipfs", "create_ip_metadata"}
IpfsTools ==
    {t \in ToolTable : t.server = "src/story-sdk-mcp/server.py" /\ t.tool \in IpfsMethods}

\* The IPFS method in f was refused before it sent any HTTP request.
RefusedBeforeAnyRequest(f) ==
    /\ f.pc = "done"
    /\ f.result.kind = "raise"
    /\ f.result.exc = "Exception"
    /\ StartsWith(f.result.msg, "IPFS functions are disabled")
    /\ f.did = <<>>

\* C28 as stated: with PINATA_JWT unset, ipfs_enabled is false, the two IPFS
\* methods raise before any HTTP request and the two IPFS tools are not
\* registered; with PINATA_JWT set, both tools are registered.
C28_IpfsToolsIffJwtSet ==
    (story.constructed /\ story.module = SdkService) =>
        IF story.pinata_jwt = None
        THEN /\ ~ipfs_enabled
             /\ IpfsTools \cap RegisteredTools = {}
             /\ \A t \in Threads :
                   frames[t].method \in IpfsMethods => RefusedBeforeAnyRequest(frames[t])
        ELSE IpfsTools \subseteq RegisteredTools

\* C28: with PINATA_JWT unset or empty, ipfs_enabled is false, the two IPFS
\* methods raise before any HTTP request and the two IPFS tools are not
\* registered; with PINATA_JWT set to a non-empty value, ipfs_enabled is true
\* and both tools are registered.
C28_IpfsToolsIffJwtNonEmpty ==
    (story.constructed /\ story.module = SdkService) =>
        IF story.pinata_jwt \in {None, ""}
        THEN /\ ~ipfs_enabled
             /\ IpfsTools \cap RegisteredTools = {}
             /\ \A t \in Threads :
                   frames[t].method \in IpfsMethods => RefusedBeforeAnyRequest(frames[t])
        ELSE /\ ipfs_enabled
             /\ IpfsTools \subseteq RegisteredTools
             /\ Cardinality(IpfsTools) = 2

C28_Witness ==
    LET f == frames["t1"]
    IN  /\ story.module = SdkService
        /\ story.pinata_jwt = None
        /\ f.method = "create_ip_metadata"
        /\ RefusedBeforeAnyRequest(f)
        /\ IpfsTools \cap RegisteredTools = {}

C28_WitnessEnabled ==
    LET f == frames["t1"]
    IN  /\ story.module = SdkService
        /\ story.pinata_jwt = "jwt"
        /\ f.method = "upload_image_to_ipfs"
        /\ f.result = Returns("ipfs://hash")
        /\ IpfsTools \subseteq RegisteredTools

====
